---- MODULE Spec2Model ----
(***************************************************************************)
(* A model of the chart object of libxlsxwriter (src/src/chart.c): the     *)
(* chart and series records, the public operations that build them and     *)
(* the serializer lxw_chart_assemble_xml_file(), which both mutates the    *)
(* chart (axis ids, running series index, per-type overrides) and appends  *)
(* XML tokens to the chart's output file.                                  *)
(*                                                                         *)
(* Representation.                                                         *)
(*  - A uint32_t is a pair <<hi, lo>> of 16-bit limbs, so that the         *)
(*    wrap-around of 32-bit arithmetic is computed exactly.                *)
(*  - A C string is a record [null, s]: s is the sequence of characters.   *)
(*  - The output file is a sequence of tokens [k, tag, val, num, str]:     *)
(*    k is "decl", "start", "end", "empty" or "data"; val carries a        *)
(*    string attribute, num an integer attribute, str the text of a data   *)
(*    element. Attributes that are constants of the source and never       *)
(*    depend on the chart (namespaces, page margins, sourceLinked) are     *)
(*    not recorded.                                                        *)
(***************************************************************************)
EXTENDS Integers, Sequences, FiniteSets, TLC

VARIABLES
    chart,   \* the lxw_chart object, with the streams it writes to
    call,    \* the public function called last, with its arguments
    heap,    \* the objects calloc() and lxw_strdup() returned, and who points to whom
    sheet,   \* an lxw_worksheet object: its rows and cells, its dimensions
    other    \* a second lxw_chart object of the same workbook

vars == <<chart, call, heap, sheet, other>>

\* What the functions that work on the chart's fields leave alone.
rest == <<call, heap, sheet, other>>

(***************************************************************************)
(* Bounds of the model.                                                    *)
(***************************************************************************)
MaxSeries == 2
MaxPasses == 2
MaxPoints == 1
MaxFilled == 2
MaxRows == 3
MaxCache == 3
MaxNumber == 2
MaxInits == 1
MaxFails == 1

(***************************************************************************)
(* 32-bit and 16-bit unsigned arithmetic.                                  *)
(***************************************************************************)
Limb == 65536

Zero32 == <<0, 0>>

One32 == <<0, 1>>

U32(n) == <<n \div Limb, n % Limb>>

Add32(a, b) ==
    LET lo == a[2] + b[2]
        hi == a[1] + b[1] + (lo \div Limb)
    IN  <<hi % Limb, lo % Limb>>

Inc16(n) == (n + 1) % Limb

\* 50010000 = 763 * 65536 + 6032
AxisIdBase == <<763, 6032>>

(***************************************************************************)
(* C strings.                                                              *)
(***************************************************************************)
NullStr == [null |-> TRUE, s |-> <<>>]

Str(chars) == [null |-> FALSE, s |-> chars]

lxw_strdup(str) == Str(str.s)

\* categories + 1: the string that starts at the second character.
StrPlus1(str) == Str(Tail(str.s))

\* categories[0] == '=' ; the first char of an empty string is the NUL.
FirstIsEquals(str) == Len(str.s) > 0 /\ str.s[1] = "="

RECURSIVE Digits(_)
Digits(n) ==
    LET d == <<"0", "1", "2", "3", "4", "5", "6", "7", "8", "9">>[(n % 10) + 1]
    IN  IF n < 10 THEN <<d>> ELSE Append(Digits(n \div 10), d)

(***************************************************************************)
(* Chart types (the case labels of _chart_write_chart_type) and one value  *)
(* that is none of them.                                                   *)
(***************************************************************************)
AreaTypes == {"LXW_CHART_AREA", "LXW_CHART_AREA_STACKED",
              "LXW_CHART_AREA_STACKED_PERCENT"}

BarTypes == {"LXW_CHART_BAR", "LXW_CHART_BAR_STACKED",
             "LXW_CHART_BAR_STACKED_PERCENT"}

ColumnTypes == {"LXW_CHART_COLUMN", "LXW_CHART_COLUMN_STACKED",
                "LXW_CHART_COLUMN_STACKED_PERCENT"}

LineTypes == {"LXW_CHART_LINE"}

RecognizedTypes == AreaTypes \cup BarTypes \cup ColumnTypes \cup LineTypes

OtherTypes == {"LXW_CHART_NONE"}

ChartTypes == RecognizedTypes \cup OtherTypes

(***************************************************************************)
(* The XML writer: each call writes one token to self->file. The operators *)
(* give the token written, as a sequence of length one.                    *)
(***************************************************************************)
Tok(k, tag, val, num, str) ==
    [k |-> k, tag |-> tag, val |-> val, num |-> num, str |-> str]

lxw_xml_declaration == <<Tok("decl", "xml", "", Zero32, <<>>)>>

lxw_xml_start_tag(tag) == <<Tok("start", tag, "", Zero32, <<>>)>>

lxw_xml_start_tag_int(tag, num) == <<Tok("start", tag, "", num, <<>>)>>

lxw_xml_end_tag(tag) == <<Tok("end", tag, "", Zero32, <<>>)>>

lxw_xml_empty_tag(tag) == <<Tok("empty", tag, "", Zero32, <<>>)>>

lxw_xml_empty_tag_str(tag, val) == <<Tok("empty", tag, val, Zero32, <<>>)>>

lxw_xml_empty_tag_int(tag, num) == <<Tok("empty", tag, "", num, <<>>)>>

lxw_xml_data_element(tag, str) == <<Tok("data", tag, "", Zero32, str)>>

\* The chart after the tokens toks went to self->file.
Write(self, toks) == [self EXCEPT !.file = @ \o toks]

\* lxw_chart_new without the strcpy of the cross_between default: calloc()
\* leaves the empty string.
lxw_chart_new_no_cross_between(type) ==
    [type              |-> type,
     id                |-> Zero32,
     axis_id_1         |-> Zero32,
     axis_id_2         |-> Zero32,
     series_index      |-> 0,
     subtype           |-> "LXW_CHART_SUBTYPE_NONE",
     has_overlap       |-> FALSE,
     has_markers       |-> FALSE,
     cat_has_num_fmt   |-> FALSE,
     cat_axis_position |-> "b",
     val_axis_position |-> "l",
     grouping          |-> "clustered",
     cross_between     |-> "",
     x_axis            |-> [default_num_format |-> "General"],
     y_axis            |-> [default_num_format |-> "General"],
     series_overlap_1  |-> 100,
     series_list       |-> <<>>,
     file              |-> <<>>,
     stderr            |-> <<>>]

(***************************************************************************)
(* lxw_chart_new(): the chart after construction. calloc() zeroes every    *)
(* field that is not assigned. The record also carries the two streams the *)
(* chart's functions write to: file (self->file) and stderr (the process's *)
(* standard error, where LXW_WARN_FORMAT prints).                          *)
(***************************************************************************)
lxw_chart_new(type) ==
    [type              |-> type,
     id                |-> Zero32,
     axis_id_1         |-> Zero32,
     axis_id_2         |-> Zero32,
     series_index      |-> 0,
     subtype           |-> "LXW_CHART_SUBTYPE_NONE",
     has_overlap       |-> FALSE,
     has_markers       |-> FALSE,
     cat_has_num_fmt   |-> FALSE,
     cat_axis_position |-> "b",
     val_axis_position |-> "l",
     grouping          |-> "clustered",
     cross_between     |-> "between",
     x_axis            |-> [default_num_format |-> "General"],
     y_axis            |-> [default_num_format |-> "General"],
     series_overlap_1  |-> 100,
     series_list       |-> <<>>,
     file              |-> <<>>,
     stderr            |-> <<>>]

\* _chart_add_axis_ids with axis_id_2 = axis_id_1: the increment forgotten.
_chart_add_axis_ids_same(self) ==
    LET chart_id   == Add32(AxisIdBase, self.id)
        axis_count == One32
        id_1       == Add32(chart_id, axis_count)
    IN  [self EXCEPT !.axis_id_1 = id_1,
                     !.axis_id_2 = id_1]

(***************************************************************************)
(* _chart_add_axis_ids()                                                   *)
(***************************************************************************)
_chart_add_axis_ids(self) ==
    LET chart_id   == Add32(AxisIdBase, self.id)
        axis_count == One32
        id_1       == Add32(chart_id, axis_count)
    IN  [self EXCEPT !.axis_id_1 = id_1,
                     !.axis_id_2 = Add32(id_1, One32)]

(***************************************************************************)
(* XML functions, in source order. A writer that only writes is modelled   *)
(* by the tokens it writes, given the chart it reads. A writer that also   *)
(* assigns to the chart (_chart_write_axis_ids, _chart_write_cat,          *)
(* _chart_write_ser, the chart-type writers and their callers) is modelled *)
(* by the chart after the call, its tokens appended to the file.           *)
(***************************************************************************)
_chart_xml_declaration(self) == lxw_xml_declaration

_chart_write_chart_space(self) == lxw_xml_start_tag("c:chartSpace")

_chart_write_lang(self) == lxw_xml_empty_tag_str("c:lang", "en-US")

_chart_write_layout(self) == lxw_xml_empty_tag("c:layout")

_chart_write_grouping(self, grouping) == lxw_xml_empty_tag_str("c:grouping", grouping)

_chart_write_idx(self, index) == lxw_xml_empty_tag_int("c:idx", U32(index))

_chart_write_order(self, index) == lxw_xml_empty_tag_int("c:order", U32(index))

_chart_write_axis_id(self, axis_id) == lxw_xml_empty_tag_int("c:axId", axis_id)

_chart_write_axis_ids(self) ==
    LET s1 == IF self.axis_id_1 = Zero32 THEN _chart_add_axis_ids(self) ELSE self
    IN  Write(s1, _chart_write_axis_id(s1, s1.axis_id_1)
                  \o _chart_write_axis_id(s1, s1.axis_id_2))

_chart_write_pt_count(self, num_data_points) ==
    lxw_xml_empty_tag_int("c:ptCount", U32(num_data_points))

\* "%.16g" of a number that came from a uint8_t: its decimal digits.
_chart_write_v(self, number) == lxw_xml_data_element("c:v", Digits(number))

_chart_write_pt(self, index, number) ==
    lxw_xml_start_tag_int("c:pt", U32(index))
    \o _chart_write_v(self, number)
    \o lxw_xml_end_tag("c:pt")

_chart_write_format_code(self) ==
    lxw_xml_data_element("c:formatCode", <<"G", "e", "n", "e", "r", "a", "l">>)

\* STAILQ_FOREACH over range->data_cache, from the k-th point, with the
\* running uint16_t index.
RECURSIVE ForeachDataPoint(_, _, _, _)
ForeachDataPoint(self, range, k, index) ==
    IF k > Len(range.data_cache) THEN <<>>
    ELSE _chart_write_pt(self, index, range.data_cache[k])
         \o ForeachDataPoint(self, range, k + 1, Inc16(index))

_chart_write_num_cache(self, range) ==
    lxw_xml_start_tag("c:numCache")
    \o _chart_write_format_code(self)
    \o _chart_write_pt_count(self, range.num_data_points)
    \o ForeachDataPoint(self, range, 1, 0)
    \o lxw_xml_end_tag("c:numCache")

_chart_write_data_cache(self, range) == _chart_write_num_cache(self, range)

\* The text of the element is the formula's characters.
_chart_write_f(self, formula) == lxw_xml_data_element("c:f", formula.s)

_chart_write_num_ref_cache_always(self, range) ==
    lxw_xml_start_tag("c:numRef")
    \o _chart_write_f(self, range.formula)
    \o _chart_write_data_cache(self, range)
    \o lxw_xml_end_tag("c:numRef")

_chart_write_num_ref(self, range) ==
    lxw_xml_start_tag("c:numRef")
    \o _chart_write_f(self, range.formula)
    \o (IF range.data_cache # <<>> THEN _chart_write_data_cache(self, range) ELSE <<>>)
    \o lxw_xml_end_tag("c:numRef")

_chart_write_symbol(self) == lxw_xml_empty_tag_str("c:symbol", "none")

_chart_write_marker(self) ==
    IF ~self.has_markers THEN <<>>
    ELSE lxw_xml_start_tag("c:marker")
         \o _chart_write_symbol(self)
         \o lxw_xml_end_tag("c:marker")

_chart_write_marker_value(self) == lxw_xml_empty_tag_str("c:marker", "1")

_chart_write_cat_unflagged(self, series) ==
    IF series.categories.formula.null THEN self
    ELSE Write(self,
               lxw_xml_start_tag("c:cat")
               \o _chart_write_num_ref(self, series.categories)
               \o lxw_xml_end_tag("c:cat"))

_chart_write_cat(self, series) ==
    IF series.categories.formula.null THEN self
    ELSE Write([self EXCEPT !.cat_has_num_fmt = TRUE],
               lxw_xml_start_tag("c:cat")
               \o _chart_write_num_ref(self, series.categories)
               \o lxw_xml_end_tag("c:cat"))

_chart_write_val(self, series) ==
    lxw_xml_start_tag("c:val")
    \o _chart_write_num_ref(self, series.values)
    \o lxw_xml_end_tag("c:val")

\* The tokens of _chart_write_ser up to the call of _chart_write_cat.
SerHead(self, index) ==
    Write(self, lxw_xml_start_tag("c:ser")
                \o _chart_write_idx(self, index)
                \o _chart_write_order(self, index)
                \o _chart_write_marker(self))

\* The tokens of _chart_write_ser after the call of _chart_write_cat.
SerTail(self, series) ==
    Write(self, _chart_write_val(self, series) \o lxw_xml_end_tag("c:ser"))

_chart_write_ser(self, series) ==
    LET index == self.series_index
    IN  SerTail(_chart_write_cat(
                    SerHead([self EXCEPT !.series_index = Inc16(@)], index),
                    series),
                series)

\* STAILQ_FOREACH over self->series_list, from the k-th series.
RECURSIVE ForeachSeries(_, _)
ForeachSeries(self, k) ==
    IF k > Len(self.series_list) THEN self
    ELSE ForeachSeries(_chart_write_ser(self, self.series_list[k]), k + 1)

_chart_write_orientation(self) == lxw_xml_empty_tag_str("c:orientation", "minMax")

_chart_write_scaling(self) ==
    lxw_xml_start_tag("c:scaling")
    \o _chart_write_orientation(self)
    \o lxw_xml_end_tag("c:scaling")

_chart_write_axis_pos(self, position) == lxw_xml_empty_tag_str("c:axPos", position)

_chart_write_tick_lbl_pos(self) == lxw_xml_empty_tag_str("c:tickLblPos", "nextTo")

_chart_write_cross_axis(self, axis_id) == lxw_xml_empty_tag_int("c:crossAx", axis_id)

_chart_write_crosses(self) == lxw_xml_empty_tag_str("c:crosses", "autoZero")

_chart_write_auto(self) == lxw_xml_empty_tag_str("c:auto", "1")

_chart_write_lbl_algn(self) == lxw_xml_empty_tag_str("c:lblAlgn", "ctr")

_chart_write_lbl_offset(self) == lxw_xml_empty_tag_str("c:lblOffset", "100")

_chart_write_major_gridlines(self) == lxw_xml_empty_tag("c:majorGridlines")

_chart_write_number_format(self, axis) ==
    lxw_xml_empty_tag_str("c:numFmt", axis.default_num_format)

_chart_write_cross_between(self) ==
    lxw_xml_empty_tag_str("c:crossBetween", self.cross_between)

_chart_write_legend_pos(self) == lxw_xml_empty_tag_str("c:legendPos", "r")

_chart_write_legend(self) ==
    lxw_xml_start_tag("c:legend")
    \o _chart_write_legend_pos(self)
    \o _chart_write_layout(self)
    \o lxw_xml_end_tag("c:legend")

_chart_write_plot_vis_only(self) == lxw_xml_empty_tag_str("c:plotVisOnly", "1")

_chart_write_header_footer(self) == lxw_xml_empty_tag("c:headerFooter")

_chart_write_page_margins(self) == lxw_xml_empty_tag("c:pageMargins")

_chart_write_page_setup(self) == lxw_xml_empty_tag("c:pageSetup")

_chart_write_print_settings(self) ==
    lxw_xml_start_tag("c:printSettings")
    \o _chart_write_header_footer(self)
    \o _chart_write_page_margins(self)
    \o _chart_write_page_setup(self)
    \o lxw_xml_end_tag("c:printSettings")

_chart_write_overlap(self, overlap) == lxw_xml_empty_tag_int("c:overlap", U32(overlap))

_chart_write_cat_axis(self) ==
    LET position == self.cat_axis_position
    IN  lxw_xml_start_tag("c:catAx")
        \o _chart_write_axis_id(self, self.axis_id_1)
        \o _chart_write_scaling(self)
        \o _chart_write_axis_pos(self, position)
        \o (IF self.cat_has_num_fmt
            THEN _chart_write_number_format(self, self.x_axis) ELSE <<>>)
        \o _chart_write_tick_lbl_pos(self)
        \o _chart_write_cross_axis(self, self.axis_id_2)
        \o _chart_write_crosses(self)
        \o _chart_write_auto(self)
        \o _chart_write_lbl_algn(self)
        \o _chart_write_lbl_offset(self)
        \o lxw_xml_end_tag("c:catAx")

\* _chart_write_val_axis crossing itself: c:crossAx written with axis_id_2.
_chart_write_val_axis_self(self) ==
    LET position == self.val_axis_position
    IN  lxw_xml_start_tag("c:valAx")
        \o _chart_write_axis_id(self, self.axis_id_2)
        \o _chart_write_scaling(self)
        \o _chart_write_axis_pos(self, position)
        \o _chart_write_major_gridlines(self)
        \o _chart_write_number_format(self, self.y_axis)
        \o _chart_write_tick_lbl_pos(self)
        \o _chart_write_cross_axis(self, self.axis_id_2)
        \o _chart_write_crosses(self)
        \o _chart_write_cross_between(self)
        \o lxw_xml_end_tag("c:valAx")

_chart_write_val_axis(self) ==
    LET position == self.val_axis_position
    IN  lxw_xml_start_tag("c:valAx")
        \o _chart_write_axis_id(self, self.axis_id_2)
        \o _chart_write_scaling(self)
        \o _chart_write_axis_pos(self, position)
        \o _chart_write_major_gridlines(self)
        \o _chart_write_number_format(self, self.y_axis)
        \o _chart_write_tick_lbl_pos(self)
        \o _chart_write_cross_axis(self, self.axis_id_1)
        \o _chart_write_crosses(self)
        \o _chart_write_cross_between(self)
        \o lxw_xml_end_tag("c:valAx")

_chart_write_bar_dir(self, type) == lxw_xml_empty_tag_str("c:barDir", type)

\* The overlap written whether has_overlap is set or not.
WriteOverlapAlways(self) ==
    Write(self, _chart_write_overlap(self, self.series_overlap_1))

\* if (self->has_overlap) _chart_write_overlap(self, self->series_overlap_1);
WriteOverlapIfSet(self) ==
    IF self.has_overlap
    THEN Write(self, _chart_write_overlap(self, self.series_overlap_1))
    ELSE self

(***************************************************************************)
(* The chart-type writers: each applies the overrides of its type to the   *)
(* chart (the assignments at the top of the function), then writes the     *)
(* element with the grouping, the series, the overlap and the axis ids.    *)
(***************************************************************************)
\* AreaOverrides with the 0% format set by the stacked variant as well.
AreaOverridesStackedPercentFormat(self, type) ==
    LET s0 == [self EXCEPT !.grouping = "standard", !.cross_between = "midCat"]
        s1 == IF type = "LXW_CHART_AREA_STACKED"
              THEN [s0 EXCEPT !.grouping = "stacked",
                              !.y_axis.default_num_format = "0%",
                              !.subtype = "LXW_CHART_SUBTYPE_STACKED"]
              ELSE s0
    IN  IF type = "LXW_CHART_AREA_STACKED_PERCENT"
        THEN [s1 EXCEPT !.grouping = "percentStacked",
                        !.y_axis.default_num_format = "0%",
                        !.subtype = "LXW_CHART_SUBTYPE_STACKED"]
        ELSE s1

AreaOverrides(self, type) ==
    LET s0 == [self EXCEPT !.grouping = "standard", !.cross_between = "midCat"]
        s1 == IF type = "LXW_CHART_AREA_STACKED"
              THEN [s0 EXCEPT !.grouping = "stacked",
                              !.subtype = "LXW_CHART_SUBTYPE_STACKED"]
              ELSE s0
    IN  IF type = "LXW_CHART_AREA_STACKED_PERCENT"
        THEN [s1 EXCEPT !.grouping = "percentStacked",
                        !.y_axis.default_num_format = "0%",
                        !.subtype = "LXW_CHART_SUBTYPE_STACKED"]
        ELSE s1

\* The start tag of the area chart and its grouping.
AreaHead(self) ==
    Write(self, lxw_xml_start_tag("c:areaChart")
                \o _chart_write_grouping(self, self.grouping))

_chart_write_area_chart(self, type) ==
    Write(_chart_write_axis_ids(
          WriteOverlapIfSet(
          ForeachSeries(
          AreaHead(AreaOverrides(self, type)), 1))),
          lxw_xml_end_tag("c:areaChart"))

\* BarOverrides with the percent-stacked variant left at the General format.
BarOverridesNoPercentFormat(self, type) ==
    LET s1 == IF type = "LXW_CHART_BAR_STACKED"
              THEN [self EXCEPT !.grouping = "stacked",
                                !.has_overlap = TRUE,
                                !.subtype = "LXW_CHART_SUBTYPE_STACKED"]
              ELSE self
        s2 == IF type = "LXW_CHART_BAR_STACKED_PERCENT"
              THEN [s1 EXCEPT !.grouping = "percentStacked",
                              !.has_overlap = TRUE,
                              !.subtype = "LXW_CHART_SUBTYPE_STACKED"]
              ELSE s1
    IN  [s2 EXCEPT !.cat_axis_position = "l", !.val_axis_position = "b"]

\* BarOverrides with the axis positions left at their defaults.
BarOverridesNoSwap(self, type) ==
    LET s1 == IF type = "LXW_CHART_BAR_STACKED"
              THEN [self EXCEPT !.grouping = "stacked",
                                !.has_overlap = TRUE,
                                !.subtype = "LXW_CHART_SUBTYPE_STACKED"]
              ELSE self
    IN  IF type = "LXW_CHART_BAR_STACKED_PERCENT"
        THEN [s1 EXCEPT !.grouping = "percentStacked",
                        !.y_axis.default_num_format = "0%",
                        !.has_overlap = TRUE,
                        !.subtype = "LXW_CHART_SUBTYPE_STACKED"]
        ELSE s1

BarOverridesExchange(self, type) ==
    LET s1 == IF type = "LXW_CHART_BAR_STACKED"
              THEN [self EXCEPT !.grouping = "stacked",
                                !.has_overlap = TRUE,
                                !.subtype = "LXW_CHART_SUBTYPE_STACKED"]
              ELSE self
        s2 == IF type = "LXW_CHART_BAR_STACKED_PERCENT"
              THEN [s1 EXCEPT !.grouping = "percentStacked",
                              !.y_axis.default_num_format = "0%",
                              !.has_overlap = TRUE,
                              !.subtype = "LXW_CHART_SUBTYPE_STACKED"]
              ELSE s1
    IN  [s2 EXCEPT !.cat_axis_position = self.val_axis_position,
                   !.val_axis_position = self.cat_axis_position]

BarOverrides(self, type) ==
    LET s1 == IF type = "LXW_CHART_BAR_STACKED"
              THEN [self EXCEPT !.grouping = "stacked",
                                !.has_overlap = TRUE,
                                !.subtype = "LXW_CHART_SUBTYPE_STACKED"]
              ELSE self
        s2 == IF type = "LXW_CHART_BAR_STACKED_PERCENT"
              THEN [s1 EXCEPT !.grouping = "percentStacked",
                              !.y_axis.default_num_format = "0%",
                              !.has_overlap = TRUE,
                              !.subtype = "LXW_CHART_SUBTYPE_STACKED"]
              ELSE s1
    IN  [s2 EXCEPT !.cat_axis_position = "l", !.val_axis_position = "b"]

\* The start tag of a bar or column chart, its direction and its grouping.
BarHead(self, dir) ==
    Write(self, lxw_xml_start_tag("c:barChart")
                \o _chart_write_bar_dir(self, dir)
                \o _chart_write_grouping(self, self.grouping))

_chart_write_bar_chart(self, type) ==
    Write(_chart_write_axis_ids(
          WriteOverlapIfSet(
          ForeachSeries(
          BarHead(BarOverrides(self, type), "bar"), 1))),
          lxw_xml_end_tag("c:barChart"))

\* ColumnOverrides with the grouping of the stacked variant left as it was.
ColumnOverridesStackedGrouping(self, type) ==
    LET s1 == IF type = "LXW_CHART_COLUMN_STACKED"
              THEN [self EXCEPT !.has_overlap = TRUE,
                                !.subtype = "LXW_CHART_SUBTYPE_STACKED"]
              ELSE self
    IN  IF type = "LXW_CHART_COLUMN_STACKED_PERCENT"
        THEN [s1 EXCEPT !.grouping = "percentStacked",
                        !.y_axis.default_num_format = "0%",
                        !.has_overlap = TRUE,
                        !.subtype = "LXW_CHART_SUBTYPE_STACKED"]
        ELSE s1

ColumnOverridesGeneralFormat(self, type) ==
    LET s1 == IF type = "LXW_CHART_COLUMN_STACKED"
              THEN [self EXCEPT !.grouping = "stacked",
                                !.has_overlap = TRUE,
                                !.subtype = "LXW_CHART_SUBTYPE_STACKED"]
              ELSE self
    IN  IF type = "LXW_CHART_COLUMN_STACKED_PERCENT"
        THEN [s1 EXCEPT !.grouping = "percentStacked",
                        !.has_overlap = TRUE,
                        !.subtype = "LXW_CHART_SUBTYPE_STACKED"]
        ELSE s1

ColumnOverrides(self, type) ==
    LET s1 == IF type = "LXW_CHART_COLUMN_STACKED"
              THEN [self EXCEPT !.grouping = "stacked",
                                !.has_overlap = TRUE,
                                !.subtype = "LXW_CHART_SUBTYPE_STACKED"]
              ELSE self
    IN  IF type = "LXW_CHART_COLUMN_STACKED_PERCENT"
        THEN [s1 EXCEPT !.grouping = "percentStacked",
                        !.y_axis.default_num_format = "0%",
                        !.has_overlap = TRUE,
                        !.subtype = "LXW_CHART_SUBTYPE_STACKED"]
        ELSE s1

_chart_write_column_chart(self, type) ==
    Write(_chart_write_axis_ids(
          WriteOverlapIfSet(
          ForeachSeries(
          BarHead(ColumnOverrides(self, type), "col"), 1))),
          lxw_xml_end_tag("c:barChart"))

LineOverrides(self) == [self EXCEPT !.has_markers = TRUE, !.grouping = "standard"]

\* The start tag of the line chart and its grouping.
LineHead(self) ==
    Write(self, lxw_xml_start_tag("c:lineChart")
                \o _chart_write_grouping(self, self.grouping))

\* The c:marker value element that follows the series of a line chart.
LineMarker(self) == Write(self, _chart_write_marker_value(self))

_chart_write_line_chart(self) ==
    Write(_chart_write_axis_ids(
          LineMarker(
          ForeachSeries(
          LineHead(LineOverrides(self)), 1))),
          lxw_xml_end_tag("c:lineChart"))

\* LXW_WARN_FORMAT(message, var): one line printed on stderr.
LXW_WARN_FORMAT(self, message) == [self EXCEPT !.stderr = Append(@, message)]

\* _chart_write_chart_type with the default case falling into the area
\* chart's case.
_chart_write_chart_type_default_area(self, type) ==
    CASE type \in BarTypes    -> _chart_write_bar_chart(self, type)
      [] type \in ColumnTypes -> _chart_write_column_chart(self, type)
      [] type \in LineTypes   -> _chart_write_line_chart(self)
      [] OTHER                -> _chart_write_area_chart(self, type)

\* The default case only warns on stderr: nothing is written to the file and
\* the chart's fields are left as they are.
_chart_write_chart_type(self, type) ==
    CASE type \in AreaTypes   -> _chart_write_area_chart(self, type)
      [] type \in BarTypes    -> _chart_write_bar_chart(self, type)
      [] type \in ColumnTypes -> _chart_write_column_chart(self, type)
      [] type \in LineTypes   -> _chart_write_line_chart(self)
      [] OTHER                -> LXW_WARN_FORMAT(self, "unhandled chart type")

\* The c:plotArea start tag is written here; its end tag by _chart_write_chart.
_chart_write_plot_area(self) ==
    _chart_write_chart_type(
        Write(self, lxw_xml_start_tag("c:plotArea") \o _chart_write_layout(self)),
        self.type)

\* The tokens of _chart_write_chart after the call of _chart_write_plot_area.
ChartTailLegendFirst(self) ==
    Write(self, _chart_write_legend(self)
                \o _chart_write_cat_axis(self)
                \o _chart_write_val_axis(self)
                \o lxw_xml_end_tag("c:plotArea")
                \o _chart_write_plot_vis_only(self)
                \o lxw_xml_end_tag("c:chart"))

ChartTailPlotAreaOpen(self) ==
    Write(self, _chart_write_cat_axis(self)
                \o _chart_write_val_axis(self)
                \o _chart_write_legend(self)
                \o _chart_write_plot_vis_only(self)
                \o lxw_xml_end_tag("c:chart"))

ChartTail(self) ==
    Write(self, _chart_write_cat_axis(self)
                \o _chart_write_val_axis(self)
                \o lxw_xml_end_tag("c:plotArea")
                \o _chart_write_legend(self)
                \o _chart_write_plot_vis_only(self)
                \o lxw_xml_end_tag("c:chart"))

_chart_write_chart(self) ==
    ChartTail(_chart_write_plot_area(Write(self, lxw_xml_start_tag("c:chart"))))

\* The tokens of lxw_chart_assemble_xml_file before the call of
\* _chart_write_chart.
FileHead(self) ==
    Write(self, _chart_xml_declaration(self)
                \o _chart_write_chart_space(self)
                \o _chart_write_lang(self))

\* The tokens of lxw_chart_assemble_xml_file after the call of
\* _chart_write_chart.
FileTail(self) ==
    Write(self, _chart_write_print_settings(self) \o lxw_xml_end_tag("c:chartSpace"))

lxw_chart_assemble_xml_file(self) == FileTail(_chart_write_chart(FileHead(self)))

(***************************************************************************)
(* Public functions.                                                       *)
(***************************************************************************)
\* The points data[i * cols + col] for i = 0 .. rows - 1 (data is 1-based
\* here), appended in that order.
RECURSIVE AppendPointsNoStride(_, _, _, _, _, _)
AppendPointsNoStride(cache, data, rows, cols, col, i) ==
    IF i >= rows THEN cache
    ELSE AppendPointsNoStride(Append(cache, data[i + col + 1]),
                              data, rows, cols, col, i + 1)

RECURSIVE AppendPoints(_, _, _, _, _, _)
AppendPoints(cache, data, rows, cols, col, i) ==
    IF i >= rows THEN cache
    ELSE AppendPoints(Append(cache, data[i * cols + col + 1]),
                      data, rows, cols, col, i + 1)

lxw_chart_add_data_cache(range, data, rows, cols, col) ==
    [range EXCEPT !.ignore_cache = TRUE,
                  !.num_data_points = rows,
                  !.data_cache = AppendPoints(@, data, rows, cols, col, 0)]

\* range->data_cache is replaced by a new, empty list head.
lxw_chart_init_data_cache(range) == [range EXCEPT !.data_cache = <<>>]

\* calloc() of a lxw_series_range.
NewRange ==
    [formula |-> NullStr, data_cache |-> <<>>, num_data_points |-> 0,
     ignore_cache |-> FALSE]

\* RangeFormula skipping every leading '=', not only the first.
RECURSIVE RangeFormulaSkipAll(_)
RangeFormulaSkipAll(ref) ==
    IF ref.null THEN NullStr
    ELSE IF FirstIsEquals(ref) THEN RangeFormulaSkipAll(StrPlus1(ref))
    ELSE lxw_strdup(ref)

RangeFormula(ref) ==
    IF ref.null THEN NullStr
    ELSE IF FirstIsEquals(ref) THEN lxw_strdup(StrPlus1(ref))
    ELSE lxw_strdup(ref)

\* The series chart_add_series() builds, and the chart with it at the tail
\* of the series list.
NewSeries(categories, values) ==
    [categories |-> lxw_chart_init_data_cache(
                        [NewRange EXCEPT !.formula = RangeFormula(categories)]),
     values     |-> lxw_chart_init_data_cache(
                        [NewRange EXCEPT !.formula = RangeFormula(values)])]

chart_add_series(self, categories, values) ==
    [self EXCEPT !.series_list = Append(@, NewSeries(categories, values))]

(***************************************************************************)
(* The same functions as they allocate and free. An object of the heap is  *)
(* a record: its kind, how often free() was called on it, and its          *)
(* pointers (a, b, and the elements of the STAILQ it heads). A pointer is  *)
(* the object's index in heap.objs; NULL is 0.                             *)
(*   chart:  a = series_list                                               *)
(*   list:   items = the series of the series list                         *)
(*   series: a = categories, b = values                                    *)
(*   range:  a = data_cache, b = formula                                   *)
(*   cache:  items = the data points                                       *)
(* heap.ret is the value the last call returned, heap.null_deref tells     *)
(* that a NULL pointer was dereferenced, heap.crashed that the process     *)
(* died of it, heap.freed that lxw_chart_free was called, heap.fails how   *)
(* many allocations returned NULL and heap.inits how often                 *)
(* lxw_chart_init_data_cache was called by the chart's user.               *)
(***************************************************************************)
NULL == 0

Obj(kind) == [kind |-> kind, frees |-> 0, a |-> NULL, b |-> NULL, items |-> <<>>]

NoHeap ==
    [objs |-> <<>>, chart |-> NULL, ret |-> NULL, null_deref |-> FALSE,
     crashed |-> FALSE, freed |-> FALSE, fails |-> 0, inits |-> 0]

\* calloc(): a new zeroed object, or NULL; the result is left in h.ret.
calloc(h, kind, ok) ==
    IF h.crashed THEN h
    ELSE IF ok THEN [h EXCEPT !.objs = Append(@, Obj(kind)), !.ret = Len(h.objs) + 1]
    ELSE [h EXCEPT !.ret = NULL, !.fails = @ + 1]

\* free(): free(NULL) does nothing.
free(h, p) ==
    IF h.crashed \/ p = NULL THEN h ELSE [h EXCEPT !.objs[p].frees = @ + 1]

\* A NULL pointer is dereferenced: the process dies of it, or the read
\* yields zero and the function goes on (ub tells which).
NullDeref(h, ub) ==
    [h EXCEPT !.null_deref = TRUE, !.crashed = @ \/ ub = "crash"]

UbOutcomes == {"crash", "continue"}

\* The while loop of lxw_chart_free_range: the points of the cache are
\* removed from the head and freed.
RECURSIVE FreePoints(_, _)
FreePoints(h, cache) ==
    IF h.objs[cache].items = <<>> THEN h
    ELSE FreePoints(free([h EXCEPT !.objs[cache].items = Tail(@)],
                         Head(h.objs[cache].items)),
                    cache)

\* The frees at the end of lxw_chart_free_range (sheetname is never set).
FreeRangeTail(h, range) ==
    free(free(free(h, h.objs[range].a), h.objs[range].b), range)

lxw_chart_free_range_mem(h, range, ub) ==
    IF h.crashed \/ range = NULL THEN h
    ELSE IF h.objs[range].a = NULL
         THEN FreeRangeTail(NullDeref(h, ub), range)
         ELSE FreeRangeTail(FreePoints(h, h.objs[range].a), range)

lxw_chart_series_free_mem(h, series, ub) ==
    IF h.crashed \/ series = NULL THEN h
    ELSE free(lxw_chart_free_range_mem(
                  lxw_chart_free_range_mem(h, h.objs[series].a, ub),
                  h.objs[series].b, ub),
              series)

\* The while loop of lxw_chart_free over the series list.
RECURSIVE FreeSeriesList(_, _, _)
FreeSeriesList(h, list, ub) ==
    IF h.crashed \/ h.objs[list].items = <<>> THEN h
    ELSE FreeSeriesList(
             lxw_chart_series_free_mem([h EXCEPT !.objs[list].items = Tail(@)],
                                       Head(h.objs[list].items), ub),
             list, ub)

lxw_chart_free_mem(h, chart_ptr, ub) ==
    IF chart_ptr = NULL THEN h
    ELSE IF h.objs[chart_ptr].a = NULL THEN free(h, chart_ptr)
    ELSE free(free(FreeSeriesList(h, h.objs[chart_ptr].a, ub), h.objs[chart_ptr].a),
              chart_ptr)

\* lxw_chart_new() from its second calloc on.
NewSeriesList(h, chart_ptr, fail, ub) ==
    LET h1 == calloc(h, "list", fail # 2)
    IN  IF h1.ret = NULL
        THEN [lxw_chart_free_mem(h1, chart_ptr, ub) EXCEPT !.ret = NULL]
        ELSE [h1 EXCEPT !.objs[chart_ptr].a = h1.ret, !.ret = chart_ptr,
                        !.chart = chart_ptr]

\* fail: which of the function's allocations returns NULL (0: none).
lxw_chart_new_mem(h, fail, ub) ==
    LET h1 == calloc(h, "chart", fail # 1)
    IN  IF h1.ret = NULL THEN [lxw_chart_free_mem(h1, NULL, ub) EXCEPT !.ret = NULL]
        ELSE NewSeriesList(h1, h1.ret, fail, ub)

\* range->data_cache = calloc(...): the pointer is assigned whatever calloc
\* returned; the function returns -1 on NULL and 0 otherwise.
lxw_chart_init_data_cache_mem(h, range, ok) ==
    LET h1 == calloc(h, "cache", ok)
    IN  [h1 EXCEPT !.objs[range].a = h1.ret, !.ret = IF h1.ret = NULL THEN -1 ELSE 0]

\* The for loop of lxw_chart_add_data_cache from the i-th point on: the
\* point is inserted at the tail before it is written to, so a NULL head
\* or a NULL point is dereferenced.
RECURSIVE AddPoints(_, _, _, _, _, _)
AddPoints(h, range, rows, i, fail, ub) ==
    IF h.crashed \/ i >= rows THEN h
    ELSE LET h1 == calloc(h, "point", fail # i + 1)
             cache == h1.objs[range].a
         IN  IF cache = NULL \/ h1.ret = NULL
             THEN AddPoints(NullDeref(h1, ub), range, rows, i + 1, fail, ub)
             ELSE AddPoints([h1 EXCEPT !.objs[cache].items = Append(@, h1.ret)],
                            range, rows, i + 1, fail, ub)

lxw_chart_add_data_cache_mem(h, range, rows, fail, ub) ==
    [AddPoints(h, range, rows, 0, fail, ub) EXCEPT !.ret = 0]

\* The mem_error label of chart_add_series.
AddSeriesMemError(h, series, ub) ==
    [lxw_chart_series_free_mem(h, series, ub) EXCEPT !.ret = NULL]

\* lxw_strdup() into range->formula when the reference is given.
RangeFormulaMem(h, range, ref, ok) ==
    IF ref.null THEN h
    ELSE LET h1 == calloc(h, "str", ok)
         IN  [h1 EXCEPT !.objs[range].b = h1.ret]

\* STAILQ_INSERT_TAIL(self->series_list, series, list_pointers); return series.
AddSeriesInsert(h, series) ==
    [h EXCEPT !.objs[h.objs[h.chart].a].items = Append(@, series), !.ret = series]

\* chart_add_series() after its three objects are allocated: the formulas,
\* the data caches (the result of lxw_chart_init_data_cache is not looked
\* at), the insertion.
AddSeriesFill(h, series, categories, values, fail) ==
    AddSeriesInsert(
        lxw_chart_init_data_cache_mem(
            lxw_chart_init_data_cache_mem(
                RangeFormulaMem(
                    RangeFormulaMem(h, h.objs[series].a, categories, fail # 4),
                    h.objs[series].b, values, fail # 5),
                h.objs[series].a, fail # 6),
            h.objs[series].b, fail # 7),
        series)

AddSeriesValues(h, series, categories, values, fail, ub) ==
    LET h1 == calloc(h, "range", fail # 3)
    IN  IF h1.ret = NULL THEN AddSeriesMemError(h1, series, ub)
        ELSE AddSeriesFill([h1 EXCEPT !.objs[series].b = h1.ret],
                           series, categories, values, fail)

AddSeriesCategories(h, series, categories, values, fail, ub) ==
    LET h1 == calloc(h, "range", fail # 2)
    IN  IF h1.ret = NULL THEN AddSeriesMemError(h1, series, ub)
        ELSE AddSeriesValues([h1 EXCEPT !.objs[series].a = h1.ret],
                             series, categories, values, fail, ub)

chart_add_series_mem(h, categories, values, fail, ub) ==
    LET h1 == calloc(h, "series", fail # 1)
    IN  IF h1.ret = NULL THEN AddSeriesMemError(h1, NULL, ub)
        ELSE AddSeriesCategories(h1, h1.ret, categories, values, fail, ub)

(***************************************************************************)
(* The worksheet: rows in ascending row number, each with its cells in     *)
(* ascending column number, and the dimensions of the used range. The      *)
(* structures are lxw_worksheet, lxw_row and lxw_cell of worksheet.h; the  *)
(* write follows the contract of the sparse cell store.                    *)
(***************************************************************************)
LXW_ROW_MAX == 1048576

LXW_COL_MAX == 16384

_new_worksheet ==
    [table |-> <<>>, sst |-> <<>>,
     dim_rowmin |-> LXW_ROW_MAX, dim_rowmax |-> 0,
     dim_colmin |-> LXW_COL_MAX, dim_colmax |-> 0]

CheckDimensionsInclusive(row, col) ==
    IF row > LXW_ROW_MAX \/ col > LXW_COL_MAX
    THEN "LXW_RANGE_ERROR" ELSE "LXW_WRITE_ERROR_NONE"

\* The error code of a write to (row, col).
CheckDimensions(row, col) ==
    IF row >= LXW_ROW_MAX \/ col >= LXW_COL_MAX
    THEN "LXW_RANGE_ERROR" ELSE "LXW_WRITE_ERROR_NONE"

\* The dimensions grow to hold (row, col).
UpdateDimensions(ws, row, col) ==
    [ws EXCEPT !.dim_rowmin = IF row < @ THEN row ELSE @,
               !.dim_rowmax = IF row > @ THEN row ELSE @,
               !.dim_colmin = IF col < @ THEN col ELSE @,
               !.dim_colmax = IF col > @ THEN col ELSE @]

InsertCellAtTail(cells, cell) == Append(cells, cell)

\* The cell takes its place in the row: at the tail when its column is past
\* the last one, in place of the cell of its column when there is one,
\* before the first cell of a greater column otherwise.
RECURSIVE InsertCell(_, _)
InsertCell(cells, cell) ==
    IF cells = <<>> \/ cells[Len(cells)].col_num < cell.col_num
    THEN Append(cells, cell)
    ELSE IF cells[Len(cells)].col_num = cell.col_num
    THEN [cells EXCEPT ![Len(cells)] = cell]
    ELSE Append(InsertCell(SubSeq(cells, 1, Len(cells) - 1), cell),
                cells[Len(cells)])

\* The same for the row of the cell: found, or made at its sorted place.
RECURSIVE InsertRow(_, _)
InsertRow(table, cell) ==
    IF table = <<>> \/ table[Len(table)].row_num < cell.row_num
    THEN Append(table, [row_num |-> cell.row_num, cells |-> <<cell>>])
    ELSE IF table[Len(table)].row_num = cell.row_num
    THEN [table EXCEPT ![Len(table)].cells = InsertCell(@, cell)]
    ELSE Append(InsertRow(SubSeq(table, 1, Len(table) - 1), cell),
                table[Len(table)])

worksheet_write_number(ws, row, col, number) ==
    IF CheckDimensions(row, col) # "LXW_WRITE_ERROR_NONE" THEN ws
    ELSE UpdateDimensions(
             [ws EXCEPT !.table =
                 InsertRow(@, [row_num |-> row, col_num |-> col,
                               number |-> number])],
             row, col)

(***************************************************************************)
(* The shared string table (worksheet->sst): the strings in the order of   *)
(* their first insertion, each with its index. The insert follows the      *)
(* contract of the table: found by its exact content, or appended.         *)
(***************************************************************************)
\* The places of a text in the table.
SstHits(sst, text) == {i \in 1..Len(sst) : sst[i].string = text}

\* The id insert() returns.
SstId(sst, text) ==
    IF SstHits(sst, text) # {}
    THEN sst[CHOOSE i \in SstHits(sst, text) : TRUE].index
    ELSE Len(sst)

InsertNoLookup(sst, text) == Append(sst, [string |-> text, index |-> Len(sst)])

\* The table after insert().
insert(sst, text) ==
    IF SstHits(sst, text) # {} THEN sst
    ELSE Append(sst, [string |-> text, index |-> Len(sst)])

(***************************************************************************)
(* Inputs.                                                                 *)
(***************************************************************************)
\* Chart ids the workbook may assign: 0, 1, and the id for which
\* 50010000 + id + 1 is 2^32: 2^32 - 50010001 = 64772 * 65536 + 59503.
WrapId == <<64772, 59503>>

ChartIds == {Zero32, One32, WrapId}

CategoriesRefs == {NullStr, Str(<<"=", "A", "1">>), Str(<<"A", "1">>)}

ValuesRefs == {Str(<<"=", "B", "1">>), Str(<<"B", "1">>)}

\* The array handed to lxw_chart_add_data_cache.
Data == <<1, 2>>

RangeNames == {"categories", "values"}

\* The number of passes written to the file: one XML declaration each.
NumPasses(self) == Cardinality({i \in 1..Len(self.file) : self.file[i].k = "decl"})

\* The data points held by the first k series of the chart.
RECURSIVE PointsUpTo(_, _)
PointsUpTo(self, k) ==
    IF k = 0 THEN 0
    ELSE Len(self.series_list[k].categories.data_cache)
         + Len(self.series_list[k].values.data_cache)
         + PointsUpTo(self, k - 1)

NumPoints(self) == PointsUpTo(self, Len(self.series_list))

\* The model follows a chart up to its MaxPasses-th serialization.
Live == NumPasses(chart) < MaxPasses

(***************************************************************************)
(* Actions.                                                                *)
(***************************************************************************)
\* The workbook assigns the chart's id (chart->id is read at line 130).
SetId ==
    /\ Live
    /\ UNCHANGED rest
    /\ \E id \in ChartIds :
        /\ id # chart.id
        /\ chart' = [chart EXCEPT !.id = id]

AddSeries ==
    /\ Live
    /\ UNCHANGED rest
    /\ Len(chart.series_list) < MaxSeries
    /\ \E categories \in CategoriesRefs, values \in ValuesRefs :
        chart' = chart_add_series(chart, categories, values)

AddDataCache ==
    /\ NumPasses(chart) = 0
    /\ UNCHANGED rest
    /\ \E k \in 1..Len(chart.series_list), r \in RangeNames,
          rows \in 1..Len(Data), cols \in 1..Len(Data), col \in 0..(Len(Data) - 1) :
        /\ col < cols
        /\ (rows - 1) * cols + col < Len(Data)
        /\ NumPoints(chart) + rows <= MaxFilled
        /\ chart' = [chart EXCEPT !.series_list[k][r] =
                        lxw_chart_add_data_cache(@, Data, rows, cols, col)]

InitDataCache ==
    /\ NumPasses(chart) = 0
    /\ UNCHANGED rest
    /\ \E k \in 1..Len(chart.series_list), r \in RangeNames :
        /\ chart.series_list[k][r].data_cache # <<>>
        /\ chart' = [chart EXCEPT !.series_list[k][r] = lxw_chart_init_data_cache(@)]

Assemble ==
    /\ Live
    /\ UNCHANGED rest
    /\ chart' = lxw_chart_assemble_xml_file(chart)

\* No public function has been called on the chart yet.
NoCall == [op |-> "none", self |-> <<>>, args |-> <<>>]

Init ==
    /\ \E type \in ChartTypes : chart = lxw_chart_new(type)
    /\ call = NoCall
    /\ heap = NoHeap
    /\ sheet = _new_worksheet
    /\ other = lxw_chart_new("LXW_CHART_AREA")

\* The life of a chart in a workbook: it gets its id and its series, and is
\* serialized.
Next ==
    \/ SetId
    \/ AddSeries
    \/ Assemble

Spec == Init /\ [][Next]_vars

\* A chart that gets its series, has their data caches filled and reset,
\* and is serialized once.
AddSeriesFirst == NumPasses(chart) = 0 /\ AddSeries

AssembleFirst == NumPasses(chart) = 0 /\ Assemble

NextCache ==
    \/ AddSeriesFirst
    \/ AddDataCache
    \/ InitDataCache
    \/ AssembleFirst

SpecCache == Init /\ [][NextCache]_vars

(***************************************************************************)
(* chart_add_series() called with any references: absent, empty, with      *)
(* none, one or two leading '='. The call is recorded with the chart it    *)
(* was made on.                                                            *)
(***************************************************************************)
AnyRefs == {NullStr, Str(<<>>), Str(<<"A", "1">>), Str(<<"=", "A", "1">>),
            Str(<<"=", "=", "A", "1">>)}

CallAddSeries ==
    /\ Len(chart.series_list) < MaxSeries
    /\ \E categories \in AnyRefs, values \in AnyRefs :
        /\ chart' = chart_add_series(chart, categories, values)
        /\ call' = [op |-> "chart_add_series", self |-> chart,
                    args |-> <<categories, values>>]
    /\ UNCHANGED <<heap, sheet, other>>

NextSeries == CallAddSeries

SpecSeries == Init /\ [][NextSeries]_vars

(***************************************************************************)
(* The data-cache functions called on the ranges of one series, with a     *)
(* rows x cols window into a row-major array. Each call is recorded with   *)
(* the chart it was made on.                                               *)
(***************************************************************************)
Matrix == <<1, 2, 3, 4, 5, 6>>

CachedPoints(self) ==
    Len(self.series_list[1].categories.data_cache)
        + Len(self.series_list[1].values.data_cache)

CallAddDataCache ==
    /\ \E r \in RangeNames, rows \in 1..MaxRows,
          cols \in 1..Len(Matrix), col \in 0..(Len(Matrix) - 1) :
        /\ col < cols
        /\ (rows - 1) * cols + col < Len(Matrix)
        /\ CachedPoints(chart) + rows <= MaxCache
        /\ chart' = [chart EXCEPT !.series_list[1][r] =
                        lxw_chart_add_data_cache(@, Matrix, rows, cols, col)]
        /\ call' = [op |-> "lxw_chart_add_data_cache", self |-> chart,
                    args |-> <<r, rows, cols, col>>]
    /\ UNCHANGED <<heap, sheet, other>>

CallInitDataCache ==
    /\ \E r \in RangeNames :
        /\ chart.series_list[1][r].data_cache # <<>>
        /\ chart' = [chart EXCEPT !.series_list[1][r] =
                        lxw_chart_init_data_cache(@)]
        /\ call' = [op |-> "lxw_chart_init_data_cache", self |-> chart,
                    args |-> <<r>>]
    /\ UNCHANGED <<heap, sheet, other>>

InitRange ==
    /\ chart = chart_add_series(lxw_chart_new("LXW_CHART_LINE"),
                                Str(<<"A", "1">>), Str(<<"B", "1">>))
    /\ call = NoCall
    /\ heap = NoHeap
    /\ sheet = _new_worksheet
    /\ other = lxw_chart_new("LXW_CHART_AREA")

NextRange ==
    \/ CallAddDataCache
    \/ CallInitDataCache

SpecRange == InitRange /\ [][NextRange]_vars

(***************************************************************************)
(* Numbers written to the cells of a worksheet in any order, at the first  *)
(* and last valid rows and columns and at the first invalid ones. Each     *)
(* call is recorded with the worksheet it was made on and what it          *)
(* returned.                                                               *)
(***************************************************************************)
SheetRows == {0, 1, LXW_ROW_MAX - 1, LXW_ROW_MAX}

SheetCols == {0, LXW_COL_MAX - 1, LXW_COL_MAX}

WriteNumber ==
    /\ \E row \in SheetRows, col \in SheetCols, number \in 1..MaxNumber :
        /\ sheet' = worksheet_write_number(sheet, row, col, number)
        /\ call' = [op |-> "worksheet_write_number", self |-> sheet,
                    args |-> <<row, col, number>>,
                    ret |-> CheckDimensions(row, col)]
    /\ UNCHANGED <<chart, heap, other>>

InitSheet ==
    /\ chart = lxw_chart_new("LXW_CHART_AREA")
    /\ call = NoCall
    /\ heap = NoHeap
    /\ sheet = _new_worksheet
    /\ other = lxw_chart_new("LXW_CHART_AREA")

NextSheet == WriteNumber

SpecSheet == InitSheet /\ [][NextSheet]_vars

(***************************************************************************)
(* Two charts of one workbook, which gave them different ids, each         *)
(* serialized on its own.                                                  *)
(***************************************************************************)
AssembleOther ==
    /\ NumPasses(other) < MaxPasses
    /\ other' = lxw_chart_assemble_xml_file(other)
    /\ UNCHANGED <<chart, call, heap, sheet>>

InitTwo ==
    /\ \E t1 \in ChartTypes, t2 \in ChartTypes, id1 \in ChartIds, id2 \in ChartIds :
        /\ id1 # id2
        /\ chart = [lxw_chart_new(t1) EXCEPT !.id = id1]
        /\ other = [lxw_chart_new(t2) EXCEPT !.id = id2]
    /\ call = NoCall
    /\ heap = NoHeap
    /\ sheet = _new_worksheet

NextTwo ==
    \/ Assemble
    \/ AssembleOther

SpecTwo == InitTwo /\ [][NextTwo]_vars

(***************************************************************************)
(* Strings inserted into the shared string table in any order, among them  *)
(* strings that differ in case or in a trailing blank only. Each call is   *)
(* recorded with the table it was made on and the id it returned.          *)
(***************************************************************************)
Texts == {"a", "A", "a ", "b"}

InsertString ==
    /\ \E text \in Texts :
        /\ sheet' = [sheet EXCEPT !.sst = insert(@, text)]
        /\ call' = [op |-> "insert", self |-> sheet.sst, args |-> <<text>>,
                    ret |-> SstId(sheet.sst, text)]
    /\ UNCHANGED <<chart, heap, other>>

NextSst == InsertString

SpecSst == InitSheet /\ [][NextSst]_vars

(***************************************************************************)
(* The chart's life on the heap: lxw_chart_new, then chart_add_series,     *)
(* lxw_chart_init_data_cache and lxw_chart_add_data_cache in any order,    *)
(* then lxw_chart_free; any one allocation of a call may return NULL.      *)
(***************************************************************************)
Alive == heap.chart # NULL /\ ~heap.crashed /\ ~heap.freed

\* The series of the chart's series list in a heap.
SeriesOf(h) == IF h.chart = NULL THEN <<>> ELSE h.objs[h.objs[h.chart].a].items

\* The ranges of the series of the list.
RangesOf(h) ==
    {h.objs[SeriesOf(h)[k]].a : k \in 1..Len(SeriesOf(h))}
    \cup {h.objs[SeriesOf(h)[k]].b : k \in 1..Len(SeriesOf(h))}

\* An allocation may fail as long as fewer than MaxFails have.
MayFail(fail) == fail # 0 => heap.fails < MaxFails

\* The objects of a kind allocated so far.
ObjsOfKind(h, kind) == {p \in 1..Len(h.objs) : h.objs[p].kind = kind}

MemNew ==
    /\ heap.objs = <<>>
    /\ \E fail \in 0..2, ub \in UbOutcomes :
        /\ MayFail(fail)
        /\ heap' = lxw_chart_new_mem(heap, fail, ub)
        /\ call' = [op |-> "lxw_chart_new", self |-> heap, args |-> <<fail>>]
    /\ UNCHANGED <<chart, sheet, other>>

MemAddSeries ==
    /\ Alive
    /\ Cardinality(ObjsOfKind(heap, "series")) < MaxSeries
    /\ \E categories \in {NullStr, Str(<<"A", "1">>)}, fail \in 0..7, ub \in UbOutcomes :
        /\ MayFail(fail)
        /\ heap' = chart_add_series_mem(heap, categories, Str(<<"B", "1">>), fail, ub)
        /\ call' = [op |-> "chart_add_series", self |-> heap, args |-> <<fail>>]
    /\ UNCHANGED <<chart, sheet, other>>

MemInitDataCache ==
    /\ Alive
    /\ heap.inits < MaxInits
    /\ \E range \in RangesOf(heap), ok \in BOOLEAN :
        /\ MayFail(IF ok THEN 0 ELSE 1)
        /\ heap' = [lxw_chart_init_data_cache_mem(heap, range, ok)
                       EXCEPT !.inits = @ + 1]
        /\ call' = [op |-> "lxw_chart_init_data_cache", self |-> heap,
                    args |-> <<IF ok THEN 0 ELSE 1>>]
    /\ UNCHANGED <<chart, sheet, other>>

MemAddDataCache ==
    /\ Alive
    /\ \E range \in RangesOf(heap),
          rows \in 1..(MaxPoints - Cardinality(ObjsOfKind(heap, "point"))),
          fail \in 0..MaxPoints, ub \in UbOutcomes :
        /\ fail <= rows
        /\ MayFail(fail)
        /\ heap' = lxw_chart_add_data_cache_mem(heap, range, rows, fail, ub)
        /\ call' = [op |-> "lxw_chart_add_data_cache", self |-> heap,
                    args |-> <<fail>>]
    /\ UNCHANGED <<chart, sheet, other>>

MemFree ==
    /\ Alive
    /\ \E ub \in UbOutcomes :
        heap' = [lxw_chart_free_mem(heap, heap.chart, ub)
                   EXCEPT !.freed = TRUE, !.ret = NULL]
    /\ call' = [op |-> "lxw_chart_free", self |-> heap, args |-> <<0>>]
    /\ UNCHANGED <<chart, sheet, other>>

\* Before lxw_chart_new: nothing is allocated.
InitMem ==
    /\ chart = lxw_chart_new("LXW_CHART_AREA")
    /\ call = NoCall
    /\ heap = NoHeap
    /\ sheet = _new_worksheet
    /\ other = lxw_chart_new("LXW_CHART_AREA")

NextMem ==
    \/ MemNew
    \/ MemAddSeries
    \/ MemInitDataCache
    \/ MemAddDataCache
    \/ MemFree

SpecMem == InitMem /\ [][NextMem]_vars

(***************************************************************************)
(* Reading the file: the passes (one per call of                           *)
(* lxw_chart_assemble_xml_file) and the elements of a pass.                *)
(***************************************************************************)
File == chart.file

Passes == 1..NumPasses(chart)

DeclAt == {i \in 1..Len(File) : File[i].k = "decl"}

PassStart(p) ==
    LET decls == DeclAt
    IN  CHOOSE i \in decls : Cardinality({j \in decls : j <= i}) = p

PassEnd(p) == IF p = NumPasses(chart) THEN Len(File) ELSE PassStart(p + 1) - 1

\* The tokens of the p-th pass.
Pass(p) == SubSeq(File, PassStart(p), PassEnd(p))

\* The tokens of a sequence that carry the tag (end tags apart), in order.
Tagged(toks, tag) == SelectSeq(toks, LAMBDA x : x.tag = tag /\ x.k # "end")

HasTag(toks, tag) == Tagged(toks, tag) # <<>>

\* The tokens of the first element with the tag in a sequence, from its start
\* tag to its end tag; empty when there is none.
Element(toks, tag) ==
    LET starts == {i \in 1..Len(toks) : toks[i].k = "start" /\ toks[i].tag = tag}
    IN  IF starts = {} THEN <<>>
        ELSE LET a == CHOOSE i \in starts : \A j \in starts : i <= j
                 ends == {i \in a..Len(toks) : toks[i].k = "end" /\ toks[i].tag = tag}
             IN  SubSeq(toks, a, CHOOSE i \in ends : \A j \in ends : i <= j)

\* The chart-type element of a pass (c:areaChart, c:barChart or c:lineChart).
TypeElement(toks) ==
    Element(toks, "c:areaChart") \o Element(toks, "c:barChart")
    \o Element(toks, "c:lineChart")

\* The val and num attributes of the tokens of a sequence, in order.
Vals(toks) == [i \in 1..Len(toks) |-> toks[i].val]

Nums(toks) == [i \in 1..Len(toks) |-> toks[i].num]

Serialized == NumPasses(chart) >= 1

StackedTypes == {"LXW_CHART_BAR_STACKED", "LXW_CHART_BAR_STACKED_PERCENT",
                 "LXW_CHART_COLUMN_STACKED", "LXW_CHART_COLUMN_STACKED_PERCENT"}

\* A step that is a call of lxw_chart_assemble_xml_file.
AssembleStep == NumPasses(chart') = NumPasses(chart) + 1

(***************************************************************************)
(* C1. Axis-id allocation is memoized: the axis ids written in the second  *)
(* and every later pass are those written in the first, whatever happens   *)
(* to the chart's id in between, and an axis id that is not zero is never  *)
(* assigned again.                                                         *)
(***************************************************************************)
AxisRefs(p) == Nums(Tagged(Pass(p), "c:axId")) \o Nums(Tagged(Pass(p), "c:crossAx"))

C1_SamePassIds == \A p \in Passes : AxisRefs(p) = AxisRefs(1)

C1_NeverRewritten ==
    /\ chart.axis_id_1 # Zero32 => chart'.axis_id_1 = chart.axis_id_1
    /\ chart.axis_id_2 # Zero32 => chart'.axis_id_2 = chart.axis_id_2

C1_AxisIdsMemoized == [](C1_SamePassIds) /\ [][C1_NeverRewritten]_vars

(***************************************************************************)
(* C2. The first serialization of a chart of a recognized type allocates   *)
(* primary = 50010000 + id + 1 and secondary = primary + 1 (in 32 bits);   *)
(* when 50010000 + id + 2 fits in 32 bits, the two are distinct and not 0. *)
(***************************************************************************)
\* 50010000 + id + n as <<carry, hi, lo>>: the value is
\* carry * 2^32 + hi * 2^16 + lo.
ExactAxisId(id, n) ==
    LET lo == 6032 + id[2] + n
        hi == 763 + id[1] + (lo \div Limb)
    IN  <<hi \div Limb, hi % Limb, lo % Limb>>

Low32(x) == <<x[2], x[3]>>

C2_Allocated ==
    (AssembleStep /\ NumPasses(chart) = 0 /\ chart.type \in RecognizedTypes)
    => /\ chart'.axis_id_1 = Low32(ExactAxisId(chart.id, 1))
       /\ chart'.axis_id_2 = Low32(ExactAxisId(chart.id, 2))
       /\ ExactAxisId(chart.id, 2)[1] = 0
          => /\ chart'.axis_id_1 # Zero32
             /\ chart'.axis_id_2 # Zero32
             /\ chart'.axis_id_1 # chart'.axis_id_2

C2_FirstAllocation == [][C2_Allocated]_vars

\* A chart with id 1 after its first serialization: ids 50010002, 50010003.
C2_Witness ==
    /\ NumPasses(chart) = 1
    /\ chart.type \in RecognizedTypes
    /\ chart.id = One32
    /\ chart.axis_id_1 = <<763, 6034>>
    /\ chart.axis_id_2 = <<763, 6035>>

(***************************************************************************)
(* C3. In every pass the k-th series written (k from 0) carries            *)
(* idx = order = k, however often the chart was serialized before.         *)
(***************************************************************************)
Positional(nums) == \A k \in 1..Len(nums) : nums[k] = U32(k - 1)

C3_PositionalIdx ==
    \A p \in Passes :
        /\ Positional(Nums(Tagged(Pass(p), "c:idx")))
        /\ Positional(Nums(Tagged(Pass(p), "c:order")))

(***************************************************************************)
(* C4. No c:axId or c:crossAx element of any serialization, of a chart of  *)
(* any type, carries the unallocated axis id 0.                            *)
(***************************************************************************)
C4_NoZeroAxisRef ==
    \A i \in 1..Len(File) :
        File[i].tag \in {"c:axId", "c:crossAx"} => File[i].num # Zero32

(***************************************************************************)
(* C5. In every pass the axis ids cross-reference: the category axis has   *)
(* axId = primary and crossAx = secondary, the value axis has              *)
(* axId = secondary and crossAx = primary, and the chart-type element of   *)
(* a recognized type lists (primary, secondary); after the pass these are  *)
(* the chart's axis_id_1 and axis_id_2.                                    *)
(***************************************************************************)
CatAx(p) == Element(Pass(p), "c:catAx")

ValAx(p) == Element(Pass(p), "c:valAx")

C5_PassCrossReferences(p) ==
    LET primary   == Nums(Tagged(CatAx(p), "c:axId"))
        secondary == Nums(Tagged(CatAx(p), "c:crossAx"))
    IN  /\ Len(primary) = 1
        /\ Len(secondary) = 1
        /\ Nums(Tagged(ValAx(p), "c:axId")) = secondary
        /\ Nums(Tagged(ValAx(p), "c:crossAx")) = primary
        /\ chart.type \in RecognizedTypes
           => Nums(Tagged(TypeElement(Pass(p)), "c:axId")) = primary \o secondary
        /\ p = NumPasses(chart)
           => /\ primary = <<chart.axis_id_1>>
              /\ secondary = <<chart.axis_id_2>>

C5_CrossReferences == \A p \in Passes : C5_PassCrossReferences(p)

\* A serialized chart of a recognized type with id 0: the chart-type element
\* lists 50010001 and 50010002.
C5_Witness ==
    /\ Serialized
    /\ chart.type \in RecognizedTypes
    /\ Nums(Tagged(TypeElement(Pass(1)), "c:axId")) = <<<<763, 6033>>, <<763, 6034>>>>
    /\ Nums(Tagged(ValAx(1), "c:crossAx")) = <<<<763, 6033>>>>

(***************************************************************************)
(* C6. After a Bar-Stacked-Percent chart is serialized its grouping is     *)
(* percentStacked, has_overlap is set and the value axis format is 0%,     *)
(* and every pass wrote them; after a Line chart is serialized has_markers *)
(* is set and its grouping is standard, and every c:ser element of every   *)
(* pass holds a c:marker element.                                          *)
(***************************************************************************)
\* The c:ser elements of a sequence hold a c:marker start tag each: between
\* a c:ser start tag and the next c:ser end tag there is one.
EachSerHasMarker(toks) ==
    \A i \in 1..Len(toks) :
        (toks[i].k = "start" /\ toks[i].tag = "c:ser")
        => \E m \in (i + 1)..Len(toks) :
              /\ toks[m].k = "start" /\ toks[m].tag = "c:marker"
              /\ \A j \in i..m : ~(toks[j].k = "end" /\ toks[j].tag = "c:ser")

C6_BarStackedPercent ==
    /\ chart.grouping = "percentStacked"
    /\ chart.has_overlap
    /\ chart.y_axis.default_num_format = "0%"
    /\ \A p \in Passes :
        /\ Vals(Tagged(Pass(p), "c:grouping")) = <<"percentStacked">>
        /\ Vals(Tagged(ValAx(p), "c:numFmt")) = <<"0%">>
        /\ HasTag(Pass(p), "c:overlap")

C6_Line ==
    /\ chart.has_markers
    /\ chart.grouping = "standard"
    /\ \A p \in Passes :
        /\ Vals(Tagged(Pass(p), "c:grouping")) = <<"standard">>
        /\ EachSerHasMarker(Pass(p))

C6_BarStackedPercentAndLine ==
    Serialized
    => /\ chart.type = "LXW_CHART_BAR_STACKED_PERCENT" => C6_BarStackedPercent
       /\ chart.type = "LXW_CHART_LINE" => C6_Line

\* A Line chart with two series, serialized: both series carry a marker.
C6_Witness ==
    /\ Serialized
    /\ chart.type = "LXW_CHART_LINE"
    /\ Len(Tagged(Pass(1), "c:ser")) = 2
    /\ Len(SelectSeq(Pass(1), LAMBDA x : x.k = "start" /\ x.tag = "c:marker")) = 2

(***************************************************************************)
(* C7. After an Area chart of any variant is serialized crossBetween is    *)
(* midCat (and every pass wrote it), has_overlap and has_markers are       *)
(* false, the axis positions are the defaults b and l, and a plain Area    *)
(* chart has grouping standard.                                            *)
(*   As claimed: the stacked and the percent-stacked variant both have the *)
(* value axis format 0%.                                                   *)
(*   As the code has it: only the percent-stacked variant has the format   *)
(* 0%; the stacked and the plain variant keep General.                     *)
(***************************************************************************)
C7_AreaCommon ==
    /\ chart.cross_between = "midCat"
    /\ ~chart.has_overlap
    /\ ~chart.has_markers
    /\ chart.cat_axis_position = "b"
    /\ chart.val_axis_position = "l"
    /\ chart.type = "LXW_CHART_AREA" => chart.grouping = "standard"
    /\ \A p \in Passes :
        /\ Vals(Tagged(ValAx(p), "c:crossBetween")) = <<"midCat">>
        /\ Vals(Tagged(CatAx(p), "c:axPos")) = <<"b">>
        /\ Vals(Tagged(ValAx(p), "c:axPos")) = <<"l">>
        /\ ~HasTag(Pass(p), "c:overlap")
        /\ ~HasTag(Pass(p), "c:marker")
        /\ chart.type = "LXW_CHART_AREA"
           => Vals(Tagged(Pass(p), "c:grouping")) = <<"standard">>

\* The format the value axis has and every pass wrote.
ValueAxisFormatIs(fmt) ==
    /\ chart.y_axis.default_num_format = fmt
    /\ \A p \in Passes : Vals(Tagged(ValAx(p), "c:numFmt")) = <<fmt>>

C7_AreaAsClaimed ==
    (Serialized /\ chart.type \in AreaTypes)
    => /\ C7_AreaCommon
       /\ chart.type \in {"LXW_CHART_AREA_STACKED", "LXW_CHART_AREA_STACKED_PERCENT"}
          => ValueAxisFormatIs("0%")

C7_AreaOverrides ==
    (Serialized /\ chart.type \in AreaTypes)
    => /\ C7_AreaCommon
       /\ chart.type = "LXW_CHART_AREA_STACKED_PERCENT" => ValueAxisFormatIs("0%")
       /\ chart.type \in {"LXW_CHART_AREA", "LXW_CHART_AREA_STACKED"}
          => ValueAxisFormatIs("General")

\* A stacked Area chart with a series, serialized: its value axis was
\* written with the General format.
C7_Witness ==
    /\ Serialized
    /\ chart.type = "LXW_CHART_AREA_STACKED"
    /\ HasTag(Pass(1), "c:ser")
    /\ Vals(Tagged(ValAx(1), "c:numFmt")) = <<"General">>
    /\ Vals(Tagged(Pass(1), "c:grouping")) = <<"stacked">>

(***************************************************************************)
(* C8. Every pass of a Bar chart of any variant writes the category axis   *)
(* at position l and the value axis at position b; every pass of a        *)
(* Column, Area or Line chart writes the category axis at b and the value  *)
(* axis at l.                                                              *)
(***************************************************************************)
AxisPositionsAre(cat, val) ==
    \A p \in Passes :
        /\ Vals(Tagged(CatAx(p), "c:axPos")) = <<cat>>
        /\ Vals(Tagged(ValAx(p), "c:axPos")) = <<val>>

C8_AxisPositions ==
    /\ chart.type \in BarTypes => AxisPositionsAre("l", "b")
    /\ chart.type \in ColumnTypes \cup AreaTypes \cup LineTypes
       => AxisPositionsAre("b", "l")

\* A Bar chart serialized twice, its axes written at l and b.
C8_Witness ==
    /\ NumPasses(chart) = 2
    /\ chart.type \in BarTypes
    /\ Vals(Tagged(CatAx(2), "c:axPos")) = <<"l">>
    /\ Vals(Tagged(ValAx(2), "c:axPos")) = <<"b">>

(***************************************************************************)
(* C9. Every pass of a plain Bar or Column chart writes the grouping       *)
(* clustered, of a stacked one stacked, of a percent-stacked one           *)
(* percentStacked: the same for Bar and for Column.                        *)
(***************************************************************************)
GroupingIs(grouping) ==
    \A p \in Passes : Vals(Tagged(Pass(p), "c:grouping")) = <<grouping>>

C9_Grouping ==
    /\ chart.type \in {"LXW_CHART_BAR", "LXW_CHART_COLUMN"}
       => GroupingIs("clustered")
    /\ chart.type \in {"LXW_CHART_BAR_STACKED", "LXW_CHART_COLUMN_STACKED"}
       => GroupingIs("stacked")
    /\ chart.type \in {"LXW_CHART_BAR_STACKED_PERCENT",
                       "LXW_CHART_COLUMN_STACKED_PERCENT"}
       => GroupingIs("percentStacked")

\* A stacked Column chart, serialized with the grouping stacked.
C9_Witness ==
    /\ Serialized
    /\ chart.type = "LXW_CHART_COLUMN_STACKED"
    /\ Vals(Tagged(Pass(1), "c:grouping")) = <<"stacked">>
    /\ Vals(Tagged(Pass(1), "c:barDir")) = <<"col">>

(***************************************************************************)
(* C10. After serialization has_overlap is true exactly for the stacked    *)
(* and the percent-stacked variants of Bar and Column (before it, for no   *)
(* chart); a pass writes c:overlap iff has_overlap is true, once, with the *)
(* value 100, inside the chart-type element after every c:ser and before   *)
(* every c:axId.                                                           *)
(***************************************************************************)
OverlapPlaced(toks) ==
    \A i \in 1..Len(toks) :
        toks[i].tag = "c:overlap"
        => /\ toks[i].num = U32(100)
           /\ \A j \in 1..Len(toks) :
                /\ toks[j].tag = "c:ser" => j < i
                /\ toks[j].tag = "c:grouping" => j < i
                /\ toks[j].tag = "c:axId" => j > i

C10_Overlap ==
    /\ chart.has_overlap <=> (Serialized /\ chart.type \in StackedTypes)
    /\ \A p \in Passes :
        /\ HasTag(Pass(p), "c:overlap") <=> chart.has_overlap
        /\ Len(Tagged(Pass(p), "c:overlap")) <= 1
        /\ Tagged(Pass(p), "c:overlap") = Tagged(TypeElement(Pass(p)), "c:overlap")
        /\ OverlapPlaced(TypeElement(Pass(p)))

\* A stacked Bar or Column chart with a series, serialized: the overlap is
\* written between the series and the axis ids.
C10_Witness ==
    /\ Serialized
    /\ chart.has_overlap
    /\ HasTag(Pass(1), "c:ser")
    /\ Nums(Tagged(Pass(1), "c:overlap")) = <<U32(100)>>

(***************************************************************************)
(* C11. Serializing a chart whose type is none of the Area, Bar, Column    *)
(* and Line variants runs to its end: every pass prints one warning,       *)
(* writes no c:areaChart, c:barChart or c:lineChart element, and writes a  *)
(* well-nested document with the envelope, the chart, the plot area with   *)
(* its layout and both axis definitions, the legend and the print          *)
(* settings, in that order.                                                *)
(***************************************************************************)
\* The tokens from the i-th on are well nested under the open tags of the
\* stack: each end tag closes the innermost open start tag.
RECURSIVE WellNested(_, _, _)
WellNested(toks, i, stack) ==
    IF i > Len(toks) THEN stack = <<>>
    ELSE CASE toks[i].k = "start" -> WellNested(toks, i + 1, <<toks[i].tag>> \o stack)
           [] toks[i].k = "end" ->
                /\ stack # <<>>
                /\ Head(stack) = toks[i].tag
                /\ WellNested(toks, i + 1, Tail(stack))
           [] OTHER -> WellNested(toks, i + 1, stack)

\* The start and end tags of a sequence, in order: <<kind, tag>> each.
Skeleton(toks) ==
    LET tags == SelectSeq(toks, LAMBDA x : x.k \in {"start", "end"})
    IN  [i \in 1..Len(tags) |-> <<tags[i].k, tags[i].tag>>]

\* The skeleton of a chart without a chart-type element.
TypeEmptySkeleton ==
    << <<"start", "c:chartSpace">>, <<"start", "c:chart">>,
       <<"start", "c:plotArea">>,
       <<"start", "c:catAx">>, <<"start", "c:scaling">>, <<"end", "c:scaling">>,
       <<"end", "c:catAx">>,
       <<"start", "c:valAx">>, <<"start", "c:scaling">>, <<"end", "c:scaling">>,
       <<"end", "c:valAx">>,
       <<"end", "c:plotArea">>,
       <<"start", "c:legend">>, <<"end", "c:legend">>,
       <<"end", "c:chart">>,
       <<"start", "c:printSettings">>, <<"end", "c:printSettings">>,
       <<"end", "c:chartSpace">> >>

C11_UnrecognizedType ==
    chart.type \notin RecognizedTypes
    => /\ Len(chart.stderr) = NumPasses(chart)
       /\ \A p \in Passes :
            /\ TypeElement(Pass(p)) = <<>>
            /\ WellNested(Pass(p), 1, <<>>)
            /\ Skeleton(Pass(p)) = TypeEmptySkeleton
            /\ Pass(p)[1].k = "decl"
            /\ HasTag(Element(Pass(p), "c:plotArea"), "c:layout")

\* A chart of an unrecognized type with a series, serialized twice.
C11_Witness ==
    /\ chart.type \notin RecognizedTypes
    /\ NumPasses(chart) = 2
    /\ Len(chart.series_list) = 1
    /\ Len(chart.stderr) = 2
    /\ HasTag(Pass(2), "c:valAx")

(***************************************************************************)
(* C12. For every chart type value the chart lxw_chart_new returns has the *)
(* category axis position b, the value axis position l, the grouping       *)
(* clustered, cross_between between, the number format General on both     *)
(* axes, no series and both axis ids 0; and as long as the chart has not   *)
(* been serialized these defaults stand and the axis ids stay 0, whatever  *)
(* its type.                                                               *)
(***************************************************************************)
C12_Defaults ==
    /\ chart.cat_axis_position = "b"
    /\ chart.val_axis_position = "l"
    /\ chart.grouping = "clustered"
    /\ chart.cross_between = "between"
    /\ chart.x_axis.default_num_format = "General"
    /\ chart.y_axis.default_num_format = "General"
    /\ chart.axis_id_1 = Zero32
    /\ chart.axis_id_2 = Zero32
    /\ ~chart.has_overlap
    /\ ~chart.has_markers

C12_NewChart ==
    /\ C12_Defaults /\ chart.series_list = <<>>
    /\ [](~Serialized => C12_Defaults)

\* A stacked Bar chart with an id and two series, not serialized yet.
C12_Witness ==
    /\ ~Serialized
    /\ chart.type = "LXW_CHART_BAR_STACKED"
    /\ chart.id = One32
    /\ Len(chart.series_list) = 2
    /\ chart.grouping = "clustered"
    /\ chart.cat_axis_position = "b"

(***************************************************************************)
(* C13. chart_add_series stores the categories and the values reference    *)
(* each with exactly one leading '=' removed when it starts with '=', as   *)
(* it is otherwise, and as absent (NULL) when it is absent.                *)
(***************************************************************************)
\* The reference as the claim has it stored.
StoredReference(ref) ==
    IF ref.null THEN NullStr
    ELSE IF ref.s # <<>> /\ Head(ref.s) = "="
         THEN Str(SubSeq(ref.s, 2, Len(ref.s)))
         ELSE Str(ref.s)

\* The series the last call of chart_add_series added.
AddedSeries == chart.series_list[Len(chart.series_list)]

C13_StoredReferences ==
    call.op = "chart_add_series"
    => /\ AddedSeries.categories.formula = StoredReference(call.args[1])
       /\ AddedSeries.values.formula = StoredReference(call.args[2])

\* A series added with the categories "==A1" and absent values: "=A1" and
\* NULL are stored.
C13_Witness ==
    /\ call.op = "chart_add_series"
    /\ call.args = <<Str(<<"=", "=", "A", "1">>), NullStr>>
    /\ AddedSeries.categories.formula = Str(<<"=", "A", "1">>)
    /\ AddedSeries.values.formula = NullStr

(***************************************************************************)
(* C14. Whenever chart_add_series returns a series (not NULL), the series  *)
(* is the last of the chart's series list, the list is the list of before  *)
(* with the series appended, and the categories and the values range of    *)
(* the series each have a data cache that is initialized and empty.        *)
(***************************************************************************)
\* The range has a data cache head, with no points.
EmptyCache(h, range) ==
    /\ range # NULL
    /\ h.objs[range].a # NULL
    /\ h.objs[h.objs[range].a].items = <<>>

C14_SeriesAppended ==
    (call.op = "chart_add_series" /\ heap.ret # NULL)
    => /\ SeriesOf(heap) = Append(SeriesOf(call.self), heap.ret)
       /\ EmptyCache(heap, heap.objs[heap.ret].a)
       /\ EmptyCache(heap, heap.objs[heap.ret].b)

(***************************************************************************)
(* C15. When an allocation inside chart_add_series or lxw_chart_new fails, *)
(* the call returns NULL, the chart's series list is as before, every      *)
(* object the call allocated has been freed once, and no NULL pointer was  *)
(* dereferenced on the way.                                                *)
(***************************************************************************)
\* The objects allocated since the heap was as before.
AllocatedSince(before) == (Len(before.objs) + 1)..Len(heap.objs)

C15_AllocationFailure ==
    (call.op \in {"chart_add_series", "lxw_chart_new"} /\ call.args[1] # 0)
    => /\ heap.ret = NULL
       /\ SeriesOf(heap) = SeriesOf(call.self)
       /\ \A p \in AllocatedSince(call.self) : heap.objs[p].frees = 1
       /\ ~heap.null_deref

(***************************************************************************)
(* C18. After lxw_chart_free, whatever calls of chart_add_series,          *)
(* lxw_chart_init_data_cache and lxw_chart_add_data_cache came before (all *)
(* of their allocations having succeeded), every object allocated for the  *)
(* chart has been freed exactly once: the series, their ranges, every data *)
(* cache head allocated for a range, every data point.                     *)
(***************************************************************************)
C18_FreedExactlyOnce ==
    (heap.freed /\ heap.fails = 0)
    => \A p \in 1..Len(heap.objs) : heap.objs[p].frees = 1

(***************************************************************************)
(* C16: lxw_chart_add_data_cache(range, data, rows, cols, col) called on a *)
(* range whose cache is empty leaves the cache holding exactly rows        *)
(* points, the i-th (from 0) being data[i * cols + col], in that order,    *)
(* and sets num_data_points to rows.                                       *)
(***************************************************************************)
AddDataCacheOnEmpty ==
    /\ call.op = "lxw_chart_add_data_cache"
    /\ call.self.series_list[1][call.args[1]].data_cache = <<>>

C16_ColumnCached ==
    AddDataCacheOnEmpty =>
        LET range == chart.series_list[1][call.args[1]]
            rows  == call.args[2]
            cols  == call.args[3]
            col   == call.args[4]
        IN  /\ Len(range.data_cache) = rows
            /\ \A i \in 0..(rows - 1) :
                    range.data_cache[i + 1] = Matrix[i * cols + col + 1]
            /\ range.num_data_points = rows

C16_Witness ==
    /\ AddDataCacheOnEmpty
    /\ call.args[2] = 3
    /\ call.args[3] = 2
    /\ call.args[4] = 1
    /\ chart.series_list[1][call.args[1]].data_cache = <<2, 4, 6>>

(***************************************************************************)
(* C17. Every pass over a chart of a recognized type writes its parts in   *)
(* one order: the declaration, then c:chartSpace holding c:lang, c:chart   *)
(* and c:printSettings; c:chart holding c:plotArea, c:legend and           *)
(* c:plotVisOnly; c:plotArea holding c:layout, the chart-type element,     *)
(* c:catAx and c:valAx; the chart-type element holding c:grouping, one     *)
(* c:ser per series in the order of the series list, c:overlap if any,     *)
(* and the two c:axId; the end of c:chartSpace comes last.                 *)
(***************************************************************************)
\* The tags of the tokens from the i-th on that lie at depth 1 (end tags
\* apart), in order; depth is the depth of the i-th token.
RECURSIVE ChildTags(_, _, _)
ChildTags(toks, i, depth) ==
    IF i > Len(toks) THEN <<>>
    ELSE (IF depth = 1 /\ toks[i].k # "end" THEN <<toks[i].tag>> ELSE <<>>)
         \o ChildTags(toks, i + 1,
                      CASE toks[i].k = "start" -> depth + 1
                        [] toks[i].k = "end" -> depth - 1
                        [] OTHER -> depth)

\* The children of an element that are among the named ones, in order.
Parts(element, named) ==
    SelectSeq(ChildTags(element, 2, 1), LAMBDA t : t \in named)

TypeTags == {"c:areaChart", "c:barChart", "c:lineChart"}

TypeElementParts(toks) ==
    Parts(TypeElement(toks), {"c:grouping", "c:ser", "c:overlap", "c:axId"})

PartsInOrder(toks) ==
    /\ toks[1].k = "decl"
    /\ ChildTags(toks, 2, 1) = <<"c:chartSpace">>
    /\ toks[Len(toks)] = lxw_xml_end_tag("c:chartSpace")[1]
    /\ Parts(Element(toks, "c:chartSpace"), {"c:lang", "c:chart", "c:printSettings"})
            = <<"c:lang", "c:chart", "c:printSettings">>
    /\ Parts(Element(toks, "c:chart"), {"c:plotArea", "c:legend", "c:plotVisOnly"})
            = <<"c:plotArea", "c:legend", "c:plotVisOnly">>
    /\ \E type \in TypeTags :
            Parts(Element(toks, "c:plotArea"),
                  {"c:layout", "c:catAx", "c:valAx"} \cup TypeTags)
                = <<"c:layout", type, "c:catAx", "c:valAx">>
    /\ \E overlap \in {<<>>, <<"c:overlap">>} :
            TypeElementParts(toks)
                = <<"c:grouping">>
                  \o [k \in 1..Len(Tagged(toks, "c:ser")) |-> "c:ser"]
                  \o overlap \o <<"c:axId", "c:axId">>

\* The k-th c:ser element of a sequence.
Ser(toks, k) ==
    LET starts == {i \in 1..Len(toks) : toks[i] = lxw_xml_start_tag("c:ser")[1]}
        ends   == {i \in 1..Len(toks) : toks[i] = lxw_xml_end_tag("c:ser")[1]}
    IN  SubSeq(toks,
               CHOOSE i \in starts : Cardinality({j \in starts : j <= i}) = k,
               CHOOSE i \in ends : Cardinality({j \in ends : j <= i}) = k)

Formulas(toks) ==
    LET fs == Tagged(toks, "c:f") IN [i \in 1..Len(fs) |-> fs[i].str]

\* The k-th c:ser of a pass carries the references of the k-th series of
\* the list (a series never changes or leaves the list once added).
SeriesInListOrder(toks) ==
    \A k \in 1..Len(Tagged(toks, "c:ser")) :
        /\ k <= Len(chart.series_list)
        /\ Formulas(Element(Ser(toks, k), "c:val"))
                = <<chart.series_list[k].values.formula.s>>
        /\ Formulas(Element(Ser(toks, k), "c:cat"))
                \in {<<>>, <<chart.series_list[k].categories.formula.s>>}

\* A pass writes as many c:ser as the list has series.
OneSerPerSeries ==
    AssembleStep =>
        Len(Tagged(chart'.file, "c:ser"))
            = Len(Tagged(chart.file, "c:ser")) + Len(chart.series_list)

C17_FixedOrder ==
    /\ [](chart.type \in RecognizedTypes
            => \A p \in Passes : /\ PartsInOrder(Pass(p))
                                 /\ SeriesInListOrder(Pass(p)))
    /\ [][chart.type \in RecognizedTypes => OneSerPerSeries]_vars

\* A bar chart serialized with two series, the first without categories and
\* the second with them.
C17_Witness ==
    /\ chart.type = "LXW_CHART_BAR_STACKED"
    /\ NumPasses(chart) = 1
    /\ Len(chart.series_list) = 2
    /\ chart.series_list[1].categories.formula.null
    /\ ~chart.series_list[2].categories.formula.null
    /\ TypeElementParts(Pass(1))
            = <<"c:grouping", "c:ser", "c:ser", "c:overlap", "c:axId", "c:axId">>
    /\ ~HasTag(Ser(Pass(1), 1), "c:cat")
    /\ HasTag(Ser(Pass(1), 2), "c:cat")

(***************************************************************************)
(* C19. A write with row >= 1,048,576 or col >= 16,384 returns the range   *)
(* error and leaves the worksheet as it was: its rows, its cells and its   *)
(* dimensions (dim_rowmin, dim_rowmax, dim_colmin, dim_colmax).            *)
(***************************************************************************)
WriteCall == call.op = "worksheet_write_number"

OutOfRange == call.args[1] >= 1048576 \/ call.args[2] >= 16384

Dimensions(ws) == <<ws.dim_rowmin, ws.dim_rowmax, ws.dim_colmin, ws.dim_colmax>>

C19_RejectedWrite ==
    (WriteCall /\ OutOfRange)
    => /\ call.ret = "LXW_RANGE_ERROR"
       /\ sheet.table = call.self.table
       /\ Dimensions(sheet) = Dimensions(call.self)

\* A write to row 1,048,576 of a worksheet that has cells.
C19_Witness ==
    /\ WriteCall
    /\ call.args[1] = 1048576
    /\ call.args[2] = 0
    /\ call.ret = "LXW_RANGE_ERROR"
    /\ Len(sheet.table) = 2
    /\ Dimensions(sheet) = <<0, 1048575, 0, 16383>>

(***************************************************************************)
(* C20. Whatever the order of the writes, the row numbers of a worksheet   *)
(* increase strictly along its rows and the column numbers increase        *)
(* strictly along the cells of each row; a valid write to a (row, col)     *)
(* that holds a cell leaves the number of cells as it was and the cell     *)
(* with the number written.                                                *)
(***************************************************************************)
Increasing(keys) == \A i \in 1..(Len(keys) - 1) : keys[i] < keys[i + 1]

RowNums(ws) == [i \in 1..Len(ws.table) |-> ws.table[i].row_num]

ColNums(row) == [i \in 1..Len(row.cells) |-> row.cells[i].col_num]

\* The cells of a worksheet at (row, col), as <<row index, cell index>>.
CellsAt(ws, row, col) ==
    {rc \in (1..Len(ws.table)) \X (1..Cardinality(SheetCols)) :
        /\ rc[2] <= Len(ws.table[rc[1]].cells)
        /\ ws.table[rc[1]].row_num = row
        /\ ws.table[rc[1]].cells[rc[2]].col_num = col}

RECURSIVE NumCells(_, _)
NumCells(ws, i) ==
    IF i > Len(ws.table) THEN 0 ELSE Len(ws.table[i].cells) + NumCells(ws, i + 1)

Overwrite ==
    /\ WriteCall
    /\ ~OutOfRange
    /\ CellsAt(call.self, call.args[1], call.args[2]) # {}

C20_Sorted ==
    /\ Increasing(RowNums(sheet))
    /\ \A i \in 1..Len(sheet.table) :
        /\ Increasing(ColNums(sheet.table[i]))
        /\ \A j \in 1..Len(sheet.table[i].cells) :
            sheet.table[i].cells[j].row_num = sheet.table[i].row_num
    /\ Overwrite
       => /\ NumCells(sheet, 1) = NumCells(call.self, 1)
          /\ \A rc \in CellsAt(sheet, call.args[1], call.args[2]) :
                sheet.table[rc[1]].cells[rc[2]].number = call.args[3]
          /\ Cardinality(CellsAt(sheet, call.args[1], call.args[2])) = 1

\* All six cells written, the last write an overwrite that changed the
\* number of the cell at (1, 0).
C20_Witness ==
    /\ RowNums(sheet) = <<0, 1, 1048575>>
    /\ \A i \in 1..3 : ColNums(sheet.table[i]) = <<0, 16383>>
    /\ Overwrite
    /\ call.args[1] = 1
    /\ call.args[2] = 0
    /\ call.self.table[2].cells[1].number = 1
    /\ sheet.table[2].cells[1].number = 2

(***************************************************************************)
(* C21. Inserting a string the table holds returns the id it has and       *)
(* leaves the table as it was; inserting a new string returns the size of  *)
(* the table before the call and adds the string with that id. The ids     *)
(* are 0 .. size - 1 in the order of first insertion, no string is held    *)
(* twice, and an entry never changes or leaves the table.                  *)
(***************************************************************************)
InsertCall == call.op = "insert"

StringsOf(sst) == {sst[i].string : i \in 1..Len(sst)}

InsertHit ==
    (InsertCall /\ call.args[1] \in StringsOf(call.self))
    => /\ sheet.sst = call.self
       /\ \E i \in 1..Len(call.self) :
            /\ call.self[i].string = call.args[1]
            /\ call.self[i].index = call.ret

InsertMiss ==
    (InsertCall /\ call.args[1] \notin StringsOf(call.self))
    => /\ call.ret = Len(call.self)
       /\ sheet.sst = Append(call.self, [string |-> call.args[1], index |-> call.ret])

DenseIds ==
    /\ \A i \in 1..Len(sheet.sst) : sheet.sst[i].index = i - 1
    /\ \A i, j \in 1..Len(sheet.sst) :
        sheet.sst[i].string = sheet.sst[j].string => i = j

EntriesKept ==
    /\ Len(sheet'.sst) >= Len(sheet.sst)
    /\ \A i \in 1..Len(sheet.sst) : sheet'.sst[i] = sheet.sst[i]

C21_IdempotentDedup ==
    /\ [](InsertHit /\ InsertMiss /\ DenseIds)
    /\ [][EntriesKept]_vars

\* "a" inserted again into a table that holds "A", "a" and "a ": id 1.
C21_Witness ==
    /\ InsertCall
    /\ call.args[1] = "a"
    /\ call.ret = 1
    /\ Len(call.self) = 3
    /\ sheet.sst = call.self
    /\ sheet.sst[1].string = "A"
    /\ sheet.sst[3].string = "a "

(***************************************************************************)
(* C22. Once a chart is serialized, the default number format of its       *)
(* value axis is 0% if its type is the percent-stacked Area, Bar or Column *)
(* and General if it is any other type, and every pass wrote that format   *)
(* on the value axis; the default number format of the category axis is    *)
(* General for every type, and no pass wrote another.                      *)
(***************************************************************************)
PercentStackedTypes ==
    {"LXW_CHART_AREA_STACKED_PERCENT", "LXW_CHART_BAR_STACKED_PERCENT",
     "LXW_CHART_COLUMN_STACKED_PERCENT"}

DefaultValueFormat ==
    IF chart.type \in PercentStackedTypes THEN "0%" ELSE "General"

C22_DefaultNumberFormats ==
    Serialized
    => /\ chart.y_axis.default_num_format = DefaultValueFormat
       /\ chart.x_axis.default_num_format = "General"
       /\ \A p \in Passes :
            /\ Vals(Tagged(ValAx(p), "c:numFmt")) = <<DefaultValueFormat>>
            /\ \A i \in 1..Len(Tagged(CatAx(p), "c:numFmt")) :
                    Tagged(CatAx(p), "c:numFmt")[i].val = "General"

\* A percent-stacked Column chart serialized twice: 0% both times.
C22_Witness ==
    /\ chart.type = "LXW_CHART_COLUMN_STACKED_PERCENT"
    /\ NumPasses(chart) = 2
    /\ chart.y_axis.default_num_format = "0%"
    /\ Vals(Tagged(ValAx(2), "c:numFmt")) = <<"0%">>
    /\ Vals(Tagged(CatAx(2), "c:numFmt")) = <<"General">>

(***************************************************************************)
(* C23. A data cache may be left out. As claimed: every range of a series  *)
(* that has a reference is written with its c:f, and every range of a      *)
(* series, categories and values, is written with a c:numCache if and only *)
(* if its data cache holds a point. As the code has it: that holds of the  *)
(* values range and of a categories range with a reference; a categories   *)
(* range without a reference is not written at all, cache or no cache. A   *)
(* series whose caches were never filled is written without c:numCache.    *)
(***************************************************************************)
RangeTag(r) == IF r = "categories" THEN "c:cat" ELSE "c:val"

\* The element of the r range in the k-th c:ser of the p-th pass.
RangeElement(p, k, r) == Element(Ser(TypeElement(Pass(p)), k), RangeTag(r))

SeriesWritten(p) == 1..Len(Tagged(TypeElement(Pass(p)), "c:ser"))

HasReference(k, r) == ~chart.series_list[k][r].formula.null

CacheWritten(p, k, r) ==
    HasTag(RangeElement(p, k, r), "c:numCache")
        <=> chart.series_list[k][r].data_cache # <<>>

FormulaWritten(p, k, r) ==
    Formulas(RangeElement(p, k, r)) = <<chart.series_list[k][r].formula.s>>

C23_AsClaimed ==
    \A p \in Passes : \A k \in SeriesWritten(p) : \A r \in RangeNames :
        /\ HasReference(k, r) => FormulaWritten(p, k, r)
        /\ CacheWritten(p, k, r)

C23_CacheOptional ==
    \A p \in Passes : \A k \in SeriesWritten(p) : \A r \in RangeNames :
        IF HasReference(k, r)
        THEN FormulaWritten(p, k, r) /\ CacheWritten(p, k, r)
        ELSE RangeElement(p, k, r) = <<>>

\* A series with both references, its values cached and its categories
\* not, serialized.
C23_Witness ==
    /\ chart.type = "LXW_CHART_LINE"
    /\ NumPasses(chart) = 1
    /\ Len(chart.series_list) = 1
    /\ HasReference(1, "categories")
    /\ chart.series_list[1].values.data_cache = <<1, 2>>
    /\ chart.series_list[1].categories.data_cache = <<>>
    /\ HasTag(RangeElement(1, 1, "values"), "c:numCache")
    /\ Formulas(RangeElement(1, 1, "categories")) = << <<"A", "1">> >>
    /\ ~HasTag(RangeElement(1, 1, "categories"), "c:numCache")

(***************************************************************************)
(* C24. Whatever calls of lxw_chart_init_data_cache and                    *)
(* lxw_chart_add_data_cache were made on a range, its num_data_points is   *)
(* the number of points its data cache holds; hence every c:numCache       *)
(* written has a c:ptCount equal to the number of its c:pt elements, and   *)
(* their idx values are 0, 1, ... in order.                                *)
(***************************************************************************)
PointsCounted(range) == range.num_data_points = Len(range.data_cache)

\* The c:numCache elements agree with themselves: c:ptCount is the number
\* of c:pt, and the c:pt carry idx 0, 1, ...
NumCacheCounted(toks) ==
    toks # <<>>
    => /\ Nums(Tagged(toks, "c:ptCount")) = <<U32(Len(Tagged(toks, "c:pt")))>>
       /\ Positional(Nums(Tagged(toks, "c:pt")))

\* Every c:numCache written agrees with itself.
WrittenCounted ==
    \A p \in Passes : \A k \in SeriesWritten(p) : \A r \in RangeNames :
        NumCacheCounted(Element(RangeElement(p, k, r), "c:numCache"))

C24_PointCount ==
    /\ \A k \in 1..Len(chart.series_list) : \A r \in RangeNames :
        PointsCounted(chart.series_list[k][r])
    /\ WrittenCounted

(***************************************************************************)
(* C25. Two charts with different ids, both serialized and so both with    *)
(* allocated axis ids, have no axis id in common.                          *)
(***************************************************************************)
AxisIds(c) == {c.axis_id_1, c.axis_id_2}

Allocated(c) == c.type \in RecognizedTypes /\ NumPasses(c) >= 1

C25_DisjointAxisIds ==
    (chart.id # other.id /\ Allocated(chart) /\ Allocated(other))
    => AxisIds(chart) \cap AxisIds(other) = {}

(***************************************************************************)
(* C26. What a pass writes is well nested, whatever the type of the chart  *)
(* (recognized or not), the number of its series and the contents of       *)
(* their data caches: every end tag closes the start tag opened last, and  *)
(* no tag is open at the end of the pass; c:plotArea, opened by            *)
(* _chart_write_plot_area and closed by _chart_write_chart, is closed once *)
(* in c:chart.                                                             *)
(***************************************************************************)
C26_WellNested ==
    \A p \in Passes :
        /\ WellNested(Pass(p), 1, <<>>)
        /\ Len(SelectSeq(Pass(p), LAMBDA x : x = lxw_xml_end_tag("c:plotArea")[1])) = 1
        /\ ChildTags(Element(Pass(p), "c:chart"), 2, 1)[1] = "c:plotArea"

\* A stacked Bar chart with two series, both values caches filled,
\* serialized.
C26_Witness ==
    /\ NumPasses(chart) = 1
    /\ chart.type = "LXW_CHART_BAR_STACKED"
    /\ Len(chart.series_list) = 2
    /\ \A k \in 1..2 : chart.series_list[k].values.data_cache # <<>>
    /\ Len(Tagged(Pass(1), "c:pt")) = 2
    /\ HasTag(Pass(1), "c:overlap")

(***************************************************************************)
(* C27. A chart that was serialized and has not changed since is left by   *)
(* another serialization with the grouping, cross_between, axis            *)
(* positions, has_overlap, has_markers, subtype, cat_has_num_fmt and axis  *)
(* default number formats it had; and no serialization, first or later,    *)
(* changes the series list or a data cache.                                *)
(***************************************************************************)
\* The fields the chart-type writers assign.
Dispatched(c) ==
    <<c.grouping, c.cross_between, c.cat_axis_position, c.val_axis_position,
      c.has_overlap, c.has_markers, c.subtype, c.cat_has_num_fmt,
      c.x_axis.default_num_format, c.y_axis.default_num_format>>

\* The chart has the series its last pass wrote.
SameSinceLastPass ==
    /\ Serialized
    /\ chart.type \in RecognizedTypes
       => Len(Tagged(Pass(NumPasses(chart)), "c:ser")) = Len(chart.series_list)

FixedPoint ==
    AssembleStep
    => /\ chart'.series_list = chart.series_list
       /\ SameSinceLastPass => Dispatched(chart') = Dispatched(chart)

C27_FixedPoint == [][FixedPoint]_vars

\* A percent-stacked Bar chart with a series with categories, serialized
\* twice.
C27_Witness ==
    /\ NumPasses(chart) = 2
    /\ chart.type = "LXW_CHART_BAR_STACKED_PERCENT"
    /\ Len(Tagged(Pass(1), "c:ser")) = 1
    /\ Len(chart.series_list) = 1
    /\ Dispatched(chart)
        = <<"percentStacked", "between", "l", "b", TRUE, FALSE,
            "LXW_CHART_SUBTYPE_STACKED", TRUE, "General", "0%">>

(***************************************************************************)
(* C28. A series that is written has a c:cat element if and only if it was *)
(* added with a categories reference, and always one c:val element. The    *)
(* category axis of a pass has its c:numFmt if and only if a series with a *)
(* categories reference was written in that pass or in one before it; the  *)
(* value axis of every pass has one c:numFmt.                              *)
(***************************************************************************)
\* A series with a categories reference was written in a pass up to p.
CategoriesWrittenBy(p) ==
    \E q \in 1..p : \E k \in SeriesWritten(q) : HasReference(k, "categories")

\* A c:ser element has c:cat exactly when the series has a categories
\* reference, and one c:val.
CatIffReference(ser, series) ==
    /\ HasTag(ser, "c:cat") <=> ~series.categories.formula.null
    /\ Len(Tagged(ser, "c:cat")) <= 1
    /\ Len(Tagged(ser, "c:val")) = 1

C28_CatAndVal ==
    \A p \in Passes :
        /\ \A k \in SeriesWritten(p) :
            CatIffReference(Ser(TypeElement(Pass(p)), k), chart.series_list[k])
        /\ HasTag(CatAx(p), "c:numFmt") <=> CategoriesWrittenBy(p)
        /\ Len(Tagged(ValAx(p), "c:numFmt")) = 1

\* A first pass over a series without categories, then a second one over
\* that series and one with categories.
C28_Witness ==
    /\ NumPasses(chart) = 2
    /\ chart.type = "LXW_CHART_COLUMN"
    /\ Len(chart.series_list) = 2
    /\ SeriesWritten(1) = {1}
    /\ ~HasReference(1, "categories")
    /\ HasReference(2, "categories")
    /\ ~HasTag(CatAx(1), "c:numFmt")
    /\ HasTag(CatAx(2), "c:numFmt")
    /\ ~HasTag(Ser(TypeElement(Pass(2)), 1), "c:cat")
    /\ HasTag(Ser(TypeElement(Pass(2)), 2), "c:cat")

====
